---- MODULE Spec2Model ----
(***************************************************************************)
(* Payment reconciliation and credit ledger of the supplier-matching       *)
(* backend: the Stripe webhook, the three sync paths, the login-time and   *)
(* dashboard auto-sync, and the credit-consuming request operations.       *)
(* The provider is modelled as configured (stripe != null, real webhook    *)
(* secret); the mock branches of the controllers are not part of the model.*)
(*                                                                         *)
(*   Spec          the handlers one at a time                              *)
(*   SpecSyncRace  the webhook, sync-one and sync-all interleaved          *)
(*   SpecRace      all handlers interleaved                                *)
(***************************************************************************)
EXTENDS Integers, Sequences, FiniteSets, TLC

(***************************************************************************)
(* Bounds of the model                                                     *)
(***************************************************************************)
MaxSessions == 2
MaxTime == 1
MaxInvoices == 1
MaxLedger == 3
RaceSessions == 1
MaxInflight == 2
MaxPayments == 3

(***************************************************************************)
(* Program constants                                                       *)
(***************************************************************************)
StarterCredits == 5
ProfessionalCredits == 15
ProfessionalRollover == 3
RenewalCredits == 25
CreditUnitPrice == 10
ExtraCreditPrice == 10
ServiceFeeAmount == 199
SavingsFeePercentage == 8
BasicPrice == 49
StarterPrice == 79
ProfessionalPrice == 199
MonthLength == 1
YearLength == 12

(***************************************************************************)
(* Value spaces                                                            *)
(***************************************************************************)
NoId == 0
NoTime == 0 - 1
NoReq == "none"
General == "general"
Emails == {"a"}
Requests == {"R1"}
PlanTypes == {"one-time", "professional_monthly", "starter_monthly", "extra_credit"}
Quantities == {1}
InitBalances == {0, 5}
GenOutcomes == {"ok", "throws"}

SeedPlans == {[planType |-> "basic", credits |-> 1, maxRolloverCredits |-> 0],
              [planType |-> "starter", credits |-> StarterCredits, maxRolloverCredits |-> 0],
              [planType |-> "professional", credits |-> ProfessionalCredits,
               maxRolloverCredits |-> ProfessionalRollover]}
PlanCatalogs == {SeedPlans}

VARIABLES payments, users, reports, suppliers, ledger, applied, opening, sessions,
          plans, now, invoices, inflight, tok, managed

vars == <<payments, users, reports, suppliers, ledger, applied, opening, sessions,
          plans, now, invoices, inflight, tok, managed>>

\* the provider's checkout sessions are numbered; the id is the number
Sessions == DOMAIN sessions

(***************************************************************************)
(* The document store as one value; handlers are functions on it.          *)
(*   payments : sequence of Payment documents in creation order            *)
(*   users    : email -> User document                                     *)
(*   reports  : request -> MatchReport status ("none" when no document)    *)
(*   suppliers: request -> the MatchReport has fullReport.suppliers         *)
(*   ledger   : sequence of CreditTransaction documents in creation order  *)
(*   applied  : history, session -> number of times the entitlement of the *)
(*              purchase was applied to an account                         *)
(*   managed  : managed-service request -> ManagedService document         *)
(*   res      : the HTTP response the handler sends, an output only        *)
(***************************************************************************)
Response(op, code, success, message) ==
    [op |-> op, code |-> code, success |-> success, message |-> message]

NoResponse == Response("none", 0, TRUE, "none")

DB == [payments |-> payments, users |-> users, reports |-> reports,
       suppliers |-> suppliers, ledger |-> ledger, applied |-> applied,
       managed |-> managed, res |-> NoResponse]

\* a step whose ledger would outgrow the bound of the model is not taken
Install(d) ==
    /\ Len(d.ledger) <= MaxLedger
    /\ payments' = d.payments
    /\ users' = d.users
    /\ reports' = d.reports
    /\ suppliers' = d.suppliers
    /\ ledger' = d.ledger
    /\ applied' = d.applied
    /\ managed' = d.managed

NewUser == [email |-> "a", exists |-> TRUE, isVerified |-> FALSE, subscriptionStatus |-> "none",
            subscriptionPlan |-> "none", subscriptionExpiresAt |-> NoTime,
            matchCredits |-> 0, stripeSubscriptionId |-> NoId]

NoUser == [NewUser EXCEPT !.exists = FALSE]

Min(a, b) == IF a < b THEN a ELSE b

(***************************************************************************)
(* Plan helpers                                                            *)
(***************************************************************************)
isSubscriptionPlan(planType) ==
    planType \in {"starter_monthly", "starter_annual",
                  "professional_monthly", "professional_annual"}

PlanFamily(planType) ==
    IF planType \in {"starter_monthly", "starter_annual"} THEN "starter"
    ELSE IF planType \in {"professional_monthly", "professional_annual"} THEN "professional"
    ELSE planType

ActivePlan(pl, planType) == {p \in pl : p.planType = PlanFamily(planType)}

\* variant: no default table behind the Plan collection
getCreditsForPlanNoDefaults(pl, planType) ==
    IF ActivePlan(pl, planType) # {}
    THEN (CHOOSE p \in ActivePlan(pl, planType) : TRUE).credits
    ELSE 0

getCreditsForPlan(pl, planType) ==
    IF ActivePlan(pl, planType) # {}
    THEN (CHOOSE p \in ActivePlan(pl, planType) : TRUE).credits
    ELSE IF planType \in {"starter_monthly", "starter_annual"} THEN StarterCredits
    ELSE IF planType \in {"professional_monthly", "professional_annual"} THEN ProfessionalCredits
    ELSE 0

getMaxRolloverCredits(pl, planType) ==
    IF ActivePlan(pl, planType) # {}
    THEN (CHOOSE p \in ActivePlan(pl, planType) : TRUE).maxRolloverCredits
    ELSE IF planType \in {"professional_monthly", "professional_annual"} THEN ProfessionalRollover
    ELSE 0

\* the pricing_config document of SystemSettings, kept with the Plan
\* documents in the pricing collections
PricingConfig(price) == [key |-> "pricing_config", planType |-> "none", extraCreditPrice |-> price]

\* settings.extraCreditPrice || 10
extraCreditPrice(pl) ==
    LET settings == {p \in pl : p.planType = "none"}
    IN IF settings # {} THEN (CHOOSE p \in settings : TRUE).extraCreditPrice
       ELSE ExtraCreditPrice

\* plan.amount of getPricingPlans, in dollars
PlanAmount(planType) ==
    IF planType = "extra_credit" THEN extraCreditPrice(plans)
    ELSE IF planType = "one-time" THEN BasicPrice
    ELSE IF PlanFamily(planType) = "starter" THEN StarterPrice
    ELSE ProfessionalPrice

\* variant: the whole balance rolls over
RolloverUncapped(creditsForPlan, maxRollover, currentCredits) ==
    IF maxRollover > 0 THEN creditsForPlan + currentCredits ELSE creditsForPlan

\* variant: the allocation never lowers the balance
RolloverNeverBelow(creditsForPlan, maxRollover, currentCredits) ==
    LET byRule == IF maxRollover > 0 /\ currentCredits > 0
                  THEN creditsForPlan + Min(currentCredits, maxRollover)
                  ELSE creditsForPlan
    IN IF byRule < currentCredits THEN currentCredits ELSE byRule

\* the rollover rule every allocation site repeats
RolloverBalance(creditsForPlan, maxRollover, currentCredits) ==
    IF maxRollover > 0 /\ currentCredits > 0
    THEN creditsForPlan + Min(currentCredits, maxRollover)
    ELSE creditsForPlan

\* variant: a period is added to an expiry that has not passed yet
SubscriptionExpiryStacked(planType, t, old) ==
    LET from == IF old # 0 - 1 /\ old > t THEN old ELSE t IN
    IF planType \in {"starter_monthly", "professional_monthly"} THEN from + MonthLength
    ELSE IF planType \in {"starter_annual", "professional_annual"} THEN from + YearLength
    ELSE old

\* expiry set by an allocation at time t; the plan types of the model are
\* monthly or annual, any other plan leaves the field as it was
SubscriptionExpiry(planType, t, old) ==
    IF planType \in {"starter_monthly", "professional_monthly"} THEN t + MonthLength
    ELSE IF planType \in {"starter_annual", "professional_annual"} THEN t + YearLength
    ELSE old

hasActivePlan(u, t) ==
    /\ u.exists
    /\ u.subscriptionStatus = "active"
    /\ (u.subscriptionExpiresAt = NoTime \/ u.subscriptionExpiresAt > t)

(***************************************************************************)
(* The payment provider, as the handlers see it                            *)
(***************************************************************************)
NoSession == [created |-> FALSE, requestId |-> General, planType |-> "extra_credit",
              email |-> "a", quantity |-> 1, paid |-> FALSE, metadataQuantity |-> TRUE]

\* the checkout session object of session s (webhook payload, sessions.retrieve)
SessionObject(s) ==
    LET c == sessions[s] IN
    [id |-> s,
     requestId |-> c.requestId,
     planType |-> c.planType,
     customer_email |-> c.email,
     quantity |-> IF isSubscriptionPlan(c.planType) \/ ~c.metadataQuantity THEN 0
                  ELSE c.quantity,
     amount_total |-> PlanAmount(c.planType) * c.quantity,
     payment_status |-> IF c.paid THEN "paid" ELSE "unpaid",
     payment_intent |-> IF c.paid /\ ~isSubscriptionPlan(c.planType) THEN s ELSE NoId,
     subscription |-> IF c.paid /\ isSubscriptionPlan(c.planType) THEN s ELSE NoId]

\* payment intent of the latest invoice of a subscription
InvoicePaymentIntent(sub) == sub

\* stripe.paymentIntents.retrieve(pi).status
PaymentIntentStatus(pi) ==
    IF pi \in Sessions /\ sessions[pi].created /\ sessions[pi].paid
    THEN "succeeded" ELSE "requires_payment_method"

\* stripe.checkout.sessions.list(): the sessions of the provider, newest first
ListedSessions == {s \in Sessions : sessions[s].created}

(***************************************************************************)
(* Document helpers                                                        *)
(***************************************************************************)
\* findOne(): the first of the matching documents S (positions), 0 when none
FirstIndex(S) ==
    IF S # {} THEN CHOOSE i \in S : \A j \in S : i <= j ELSE 0

\* findOne().sort({createdAt: -1}): the latest of the matching documents
LastIndex(S) ==
    IF S # {} THEN CHOOSE i \in S : \A j \in S : j <= i ELSE 0

LedgerRow(email, requestId, used, before, after, type, reason, notes) ==
    [email |-> email, requestId |-> requestId, creditsUsed |-> used,
     creditsBefore |-> before, creditsAfter |-> after,
     transactionType |-> type, reason |-> reason, notes |-> notes]

\* document.save(): the paths the handler changed since it loaded the
\* document are written, the other paths keep their stored values
SaveUser(stored, loaded, mem) ==
    [f \in DOMAIN mem |-> IF mem[f] # loaded[f] THEN mem[f] ELSE stored[f]]

\* the account document a handler works on: the stored one, or a new User
FindOrNewUser(d, email) ==
    IF d.users[email].exists THEN d.users[email] ELSE [NewUser EXCEPT !.email = email]

\* history: the entitlement of the purchase of session s was applied once more
MarkApplied(d, s) == [d EXCEPT !.applied[s] = @ + 1]

(***************************************************************************)
(* Credit top-up sub-handler (webhook and sync-one share it line by line)  *)
(***************************************************************************)
\* creditsToAdd: the metadata quantity, or amount / $10 when it is absent
TopUpCredits(quantityFromMetadata, amount) ==
    IF quantityFromMetadata # 0 THEN quantityFromMetadata ELSE amount \div CreditUnitPrice

\* add the credits, save the account, write the top_up row
AddTopUpCredits(d, email, requestId, creditsToAdd) ==
    LET user == FindOrNewUser(d, email)
        creditsBefore == user.matchCredits
        creditsAfter == creditsBefore + creditsToAdd
    IN [d EXCEPT !.users[email] = [user EXCEPT !.matchCredits = creditsAfter],
                 !.ledger = Append(@, LedgerRow(email, requestId, creditsToAdd,
                                creditsBefore, creditsAfter, "added", "top_up", "extra_credit"))]

\* "Deduct 1 credit to unlock this report", guarded by matchCredits > 0
DeductUnlockCredit(d, email, requestId) ==
    LET user == d.users[email] IN
    IF user.matchCredits > 0
    THEN [d EXCEPT !.users[email].matchCredits = user.matchCredits - 1,
                   !.ledger = Append(@, LedgerRow(email, requestId, 1, user.matchCredits,
                                  user.matchCredits - 1, "deducted", "unlock_request", "top-up"))]
    ELSE d

\* a generation step that would charge its credit before the generator runs
AutoGenerateMatchChargingFirst(d, email, requestId, t, gen) ==
    LET user == d.users[email] IN
    IF user.isVerified /\ hasActivePlan(user, t) /\ user.matchCredits > 0
    THEN LET d1 == [d EXCEPT !.users[email].matchCredits = user.matchCredits - 1,
                             !.ledger = Append(@, LedgerRow(email, requestId, 1,
                                            user.matchCredits, user.matchCredits - 1,
                                            "deducted", "match_generation", "top-up"))]
         IN IF gen = "ok"
            THEN [d1 EXCEPT !.reports[requestId] = "completed",
                            !.suppliers[requestId] = TRUE]
            ELSE d1
    ELSE d

\* automatic match generation after a request-bound top-up
AutoGenerateMatch(d, email, requestId, t, gen) ==
    LET user == d.users[email] IN
    IF user.isVerified /\ hasActivePlan(user, t) /\ user.matchCredits > 0 /\ gen = "ok"
    THEN [d EXCEPT !.users[email].matchCredits = user.matchCredits - 1,
                   !.ledger = Append(@, LedgerRow(email, requestId, 1, user.matchCredits,
                                  user.matchCredits - 1, "deducted", "match_generation", "top-up")),
                   !.reports[requestId] = "completed",
                   !.suppliers[requestId] = TRUE]
    ELSE d

\* the whole extra_credit branch once the payment is saved as succeeded
ExtraCreditBranch(d, email, requestId, creditsToAdd, t, gen) ==
    LET d1 == AddTopUpCredits(d, email, requestId, creditsToAdd) IN
    IF requestId = NoReq THEN d1
    ELSE LET d2 == DeductUnlockCredit(d1, email, requestId)
             d3 == [d2 EXCEPT !.reports[requestId] = "unlocked"]
         IN AutoGenerateMatch(d3, email, requestId, t, gen)

(***************************************************************************)
(* Subscription allocation, as the webhook writes it                       *)
(***************************************************************************)
AllocateSubscription(d, pl, email, planType, subscription, t, notes) ==
    LET user == FindOrNewUser(d, email)
        creditsBefore == user.matchCredits
        newCredits == RolloverBalance(getCreditsForPlan(pl, planType),
                                      getMaxRolloverCredits(pl, planType), creditsBefore)
    IN [d EXCEPT !.users[email] =
                     [user EXCEPT !.subscriptionStatus = "active",
                                  !.subscriptionPlan = planType,
                                  !.stripeSubscriptionId = subscription,
                                  !.matchCredits = newCredits,
                                  !.subscriptionExpiresAt = SubscriptionExpiry(planType, t, @)],
                 !.ledger = Append(@, LedgerRow(email, NoReq, newCredits - creditsBefore,
                                creditsBefore, newCredits, "added",
                                "subscription_allocation", notes))]

(***************************************************************************)
(* handleWebhook                                                           *)
(***************************************************************************)
\* lookup of the PaymentRecord of a checkout.session.completed event:
\* by stripeSessionId, then by metadata.requestId / client_reference_id
WebhookLookup(P, so) ==
    LET bySession == FirstIndex({i \in 1..Len(P) : P[i].stripeSessionId = so.id})
        byRequest == IF so.requestId = General
                     THEN FirstIndex({i \in 1..Len(P) :
                                         P[i].requestId = NoReq /\ P[i].planType = "extra_credit"})
                     ELSE FirstIndex({i \in 1..Len(P) : P[i].requestId = so.requestId})
    IN IF bySession # 0 THEN bySession ELSE byRequest

WebhookAck(d) == [d EXCEPT !.res = Response("webhook", 200, TRUE, "received")]

\* the PaymentRecord constructed from the event of a top-up, as saved
TopUpRecord(d, so, t) ==
    LET isGeneralTopUp == so.requestId = General IN
    [requestId |-> IF isGeneralTopUp THEN NoReq ELSE so.requestId,
     matchReportId |-> IF ~isGeneralTopUp /\ d.reports[so.requestId] # "none"
                       THEN so.requestId ELSE NoReq,
     email |-> so.customer_email,
     amount |-> so.amount_total,
     planType |-> "extra_credit",
     status |-> "succeeded",
     stripeSessionId |-> so.id,
     stripePaymentIntentId |-> so.payment_intent,
     stripeSubscriptionId |-> so.subscription,
     paidAt |-> t]

\* no record found, planType extra_credit: construct the record, mark it
\* succeeded and run the top-up branch
WebhookExtraCredit(d, so, t, gen) ==
    LET payment == TopUpRecord(d, so, t)
        requestId == payment.requestId
        d1 == [d EXCEPT !.payments = Append(@, payment)]
        d2 == IF requestId # NoReq /\ d1.reports[requestId] = "none"
              THEN [d1 EXCEPT !.reports[requestId] = "pending"] ELSE d1
        d3 == ExtraCreditBranch(d2, payment.email, requestId,
                                TopUpCredits(so.quantity, payment.amount), t, gen)
    IN WebhookAck(MarkApplied(d3, so.id))

\* the PaymentRecord constructed from the event of a standard purchase
StandardRecord(so, t) ==
    [requestId |-> so.requestId,
     matchReportId |-> so.requestId,
     email |-> so.customer_email,
     amount |-> so.amount_total,
     planType |-> so.planType,
     status |-> "succeeded",
     stripeSessionId |-> NoId,
     stripePaymentIntentId |-> IF so.payment_intent # NoId THEN so.payment_intent
                               ELSE IF so.subscription # NoId
                                    THEN InvoicePaymentIntent(so.subscription)
                                    ELSE NoId,
     stripeSubscriptionId |-> so.subscription,
     paidAt |-> t]

\* no record found, any other plan: construct the record as succeeded when
\* the request has a MatchReport, unlock the report, activate a subscription
WebhookStandard(d, pl, so, t) ==
    IF d.reports[so.requestId] = "none" THEN WebhookAck(d)
    ELSE
    LET payment == StandardRecord(so, t)
        d1 == [d EXCEPT !.payments = Append(@, payment),
                        !.reports[so.requestId] = "unlocked"]
    IN IF isSubscriptionPlan(payment.planType)
       THEN WebhookAck(MarkApplied(
                AllocateSubscription(d1, pl, payment.email, payment.planType,
                                     so.subscription, t, payment.planType), so.id))
       ELSE WebhookAck(d1)

\* checkout.session.completed for session s: the sub-handlers run only when
\* the lookup found no PaymentRecord (the processing block is nested in the
\* "payment not found" branch)
\* variant: the sub-handlers also run when the lookup found a record
WebhookProcessesAlways(found) == found >= 0

\* variant: the sub-handlers never run
WebhookProcessesNever(found) == found < 0

WebhookProcesses(found) == found = 0

(***************************************************************************)
(* Managed-service payments of the webhook                                 *)
(***************************************************************************)
ManagedRequests == {"M1"}

\* the stage enum of the ManagedService schema, in workflow order
Stages == <<"payment_pending", "review", "rfq_prep", "supplier_outreach",
            "collecting_quotes", "negotiating", "report_ready", "final_report">>

StageRank(stage) == CHOOSE i \in 1..Len(Stages) : Stages[i] = stage

\* the document initiateRequest stores
NewManagedService ==
    [email |-> "a", status |-> "pending_payment", stage |-> "payment_pending",
     serviceFeeAmount |-> ServiceFeeAmount, serviceFeeStatus |-> "pending",
     serviceFeePaymentId |-> NoId, savingsAmount |-> 0, savingsFeeAmount |-> 0,
     savingsFeeStatus |-> "not_applicable", savingsFeePaymentId |-> NoId]

isManagedSession(so) == so.planType \in {"managed_service", "managed_service_savings_fee"}

\* the PaymentRecord the webhook creates for a managed-service payment
ManagedRecord(d, so, planType, amount, t) ==
    [requestId |-> so.requestId,
     matchReportId |-> NoReq,
     email |-> so.customer_email,
     amount |-> amount,
     planType |-> planType,
     status |-> "succeeded",
     stripeSessionId |-> NoId,
     stripePaymentIntentId |-> so.payment_intent,
     stripeSubscriptionId |-> NoId,
     paidAt |-> t]

\* a managed-service fee that would also grant a credit
WebhookManagedServiceGranting(d, so, t) ==
    LET m == so.requestId
        user == FindOrNewUser(d, so.customer_email)
    IN WebhookAck(
         [d EXCEPT !.users[so.customer_email] =
                       [user EXCEPT !.isVerified = TRUE, !.matchCredits = @ + 1],
                   !.managed[m].serviceFeeStatus = "paid",
                   !.managed[m].serviceFeePaymentId = so.payment_intent,
                   !.managed[m].status = "in_progress",
                   !.managed[m].stage = "review",
                   !.payments = Append(@, ManagedRecord(d, so, "managed_service",
                                           d.managed[m].serviceFeeAmount, t))])

\* metadata.type = "managed_service": the account is created or marked
\* verified, the fee marked paid, the request set to in_progress / review,
\* a succeeded PaymentRecord created
WebhookManagedService(d, so, t) ==
    LET m == so.requestId
        user == FindOrNewUser(d, so.customer_email)
    IN WebhookAck(
         [d EXCEPT !.users[so.customer_email] = [user EXCEPT !.isVerified = TRUE],
                   !.managed[m].serviceFeeStatus = "paid",
                   !.managed[m].serviceFeePaymentId = so.payment_intent,
                   !.managed[m].status = "in_progress",
                   !.managed[m].stage = "review",
                   !.payments = Append(@, ManagedRecord(d, so, "managed_service",
                                           d.managed[m].serviceFeeAmount, t))])

\* metadata.type = "managed_service_savings_fee": the savings fee marked
\* paid, a succeeded PaymentRecord created
WebhookSavingsFee(d, so, t) ==
    LET m == so.requestId
    IN WebhookAck(
         [d EXCEPT !.managed[m].savingsFeeStatus = "paid",
                   !.managed[m].savingsFeePaymentId = so.payment_intent,
                   !.payments = Append(@, ManagedRecord(d, so, "managed_service_savings_fee",
                                           d.managed[m].savingsFeeAmount, t))])

(***************************************************************************)
(* Managed-service checkout and administration                             *)
(***************************************************************************)
\* the pending PaymentRecord createPaymentSession stores: no provider id
ManagedCheckoutPayment(d, m, email) ==
    [requestId |-> m,
     matchReportId |-> NoReq,
     email |-> email,
     amount |-> d.managed[m].serviceFeeAmount,
     planType |-> "managed_service",
     status |-> "pending",
     stripeSessionId |-> NoId,
     stripePaymentIntentId |-> NoId,
     stripeSubscriptionId |-> NoId,
     paidAt |-> NoTime]

\* POST managed-services/payment: s is the provider session created
createPaymentSession(d, m, email, s) ==
    IF d.managed[m].serviceFeeStatus = "paid"
    THEN [proceed |-> FALSE,
          d |-> [d EXCEPT !.res = Response("managed-checkout", 400, FALSE, "already paid")]]
    ELSE [proceed |-> TRUE,
          d |-> [d EXCEPT !.managed[m].email = email,
                          !.managed[m].serviceFeePaymentId = s,
                          !.payments = Append(@, ManagedCheckoutPayment(d, m, email)),
                          !.res = Response("managed-checkout", 200, TRUE, "session created")]]

\* POST managed-services/:id/savings-fee/payment
createSavingsFeePaymentSession(d, m, user, s) ==
    IF d.managed[m].email # user.email
    THEN [proceed |-> FALSE,
          d |-> [d EXCEPT !.res = Response("savings-checkout", 403, FALSE, "Access denied")]]
    ELSE IF d.managed[m].savingsAmount <= 0
    THEN [proceed |-> FALSE,
          d |-> [d EXCEPT !.res = Response("savings-checkout", 400, FALSE, "no savings fee")]]
    ELSE IF d.managed[m].savingsFeeStatus = "paid"
    THEN [proceed |-> FALSE,
          d |-> [d EXCEPT !.res = Response("savings-checkout", 400, FALSE, "already paid")]]
    ELSE [proceed |-> TRUE,
          d |-> [d EXCEPT !.managed[m].savingsFeePaymentId = s,
                          !.res = Response("savings-checkout", 200, TRUE, "session created")]]

\* PUT admin/managed-services/:id/stage
updateStage(d, m, stage) ==
    [d EXCEPT !.managed[m].stage = stage,
              !.managed[m].status = IF stage = "report_ready" THEN "action_required"
                                    ELSE IF stage = "final_report" THEN "completed"
                                    ELSE "in_progress",
              !.res = Response("update-stage", 200, TRUE, "Stage updated")]

\* PUT admin/managed-services/:id/quotes with a negotiated price below the
\* original one: the savings and the fee on them
updateQuotes(d, m, savings) ==
    [d EXCEPT !.managed[m].savingsAmount = savings,
              !.managed[m].savingsFeeAmount = (savings * SavingsFeePercentage) \div 100,
              !.managed[m].savingsFeeStatus = "pending",
              !.res = Response("update-quotes", 200, TRUE, "Quotes updated")]

\* the handler past the lookup that found nothing
WebhookApply(d, pl, so, t, gen) ==
    IF so.planType = "extra_credit" THEN WebhookExtraCredit(d, so, t, gen)
    ELSE WebhookStandard(d, pl, so, t)

handleWebhook(d, pl, s, t, gen) ==
    LET so == SessionObject(s)
        found == WebhookLookup(d.payments, so)
    IN IF so.planType = "managed_service" THEN WebhookManagedService(d, so, t)
       ELSE IF so.planType = "managed_service_savings_fee" THEN WebhookSavingsFee(d, so, t)
       ELSE IF ~WebhookProcesses(found) THEN WebhookAck(d)
       ELSE WebhookApply(d, pl, so, t, gen)

\* variant: the event is taken from the body whatever the signature
SignatureUnchecked(validSignature) == TRUE

\* stripe.webhooks.constructEvent(body, sig, secret) returns the event when
\* the signature is valid and throws otherwise
SignatureVerified(validSignature) == validSignature

\* the request as received: the signature is verified before any handling
handleWebhookRequest(d, pl, validSignature, s, t, gen) ==
    IF ~SignatureVerified(validSignature)
    THEN [d EXCEPT !.res = Response("webhook", 400, FALSE, "Webhook Error")]
    ELSE handleWebhook(d, pl, s, t, gen)

\* invoice.payment_succeeded for subscription sub: the account found by
\* stripeSubscriptionId, else by customer_email, is reset to 25 credits
InvoiceUser(d, sub) ==
    LET bySub == {e \in Emails : d.users[e].exists /\ d.users[e].stripeSubscriptionId = sub}
        byEmail == {e \in Emails : d.users[e].exists /\ e = sessions[sub].email}
    IN IF bySub # {} THEN bySub ELSE byEmail

handleInvoicePaid(d, sub) ==
    IF InvoiceUser(d, sub) = {} THEN WebhookAck(d)
    ELSE LET e == CHOOSE x \in InvoiceUser(d, sub) : TRUE IN
         WebhookAck([d EXCEPT !.users[e].matchCredits = RenewalCredits,
                              !.users[e].subscriptionStatus = "active"])

(***************************************************************************)
(* syncPaymentStatus (sync-one)                                            *)
(***************************************************************************)
\* variant: the report is left as it is
UnlockReportSkipped(d, payment) == d

\* "set match report to unlocked after payment", skipped when the payment has
\* no report or the report is already unlocked
UnlockReportOf(d, payment) ==
    IF payment.matchReportId # NoReq
       /\ d.reports[payment.matchReportId] \notin {"none", "unlocked"}
    THEN [d EXCEPT !.reports[payment.matchReportId] = "unlocked"]
    ELSE d

\* the newest paid session the provider lists for a request
ListedPaidSessions(requestId) ==
    {s \in ListedSessions : sessions[s].requestId = requestId /\ sessions[s].paid}

NewestSession(S) == CHOOSE s \in S : \A x \in S : x <= s

\* the latest PaymentRecord of (requestId, owner email)
SyncOneLookup(P, email, requestId) ==
    LastIndex({i \in 1..Len(P) : P[i].requestId = requestId /\ P[i].email = email})

\* variant: the short-circuit compares with the provider's word for paid
AlreadyProcessedWrongStatus(payment) == payment.status = "paid"

\* the short-circuit of sync-one
AlreadyProcessed(payment) == payment.status = "succeeded"

\* a sync-one that would answer an unpaid session with a server error
SyncOneNotCompletedAsError(d) ==
    [d EXCEPT !.res = Response("sync-one", 500, FALSE, "Internal server error")]

SyncOneNotCompleted(d) ==
    [d EXCEPT !.res = Response("sync-one", 200, FALSE, "not completed")]

SyncOneSynced(d) ==
    [d EXCEPT !.res = Response("sync-one", 200, TRUE, "synced")]

\* branch 1: the record carries a payment-intent id
SyncOneByIntent(d, i, payment, t) ==
    IF PaymentIntentStatus(payment.stripePaymentIntentId) = "succeeded"
    THEN LET d1 == [d EXCEPT !.payments[i].status = "succeeded",
                             !.payments[i].paidAt = t]
         IN SyncOneSynced(UnlockReportOf(d1, payment))
    ELSE SyncOneNotCompleted(d)

\* branch 2: the record carries a session id; reqUser is req.user, the
\* account document the authentication middleware loaded
SyncOneBySession(d, pl, i, payment, reqUser, t, gen) ==
    LET so == SessionObject(payment.stripeSessionId) IN
    IF so.payment_status # "paid" THEN SyncOneNotCompleted(d)
    ELSE
    LET d1 == [d EXCEPT !.payments[i].stripePaymentIntentId = so.payment_intent,
                        !.payments[i].stripeSubscriptionId =
                            IF so.subscription # NoId THEN so.subscription ELSE @,
                        !.payments[i].status = "succeeded",
                        !.payments[i].paidAt = t]
        d2 == IF payment.planType = "extra_credit"
              THEN LET a == IF payment.requestId # NoReq /\ d1.reports[payment.requestId] = "none"
                            THEN [d1 EXCEPT !.reports[payment.requestId] = "pending"] ELSE d1
                       b == ExtraCreditBranch(a, payment.email, payment.requestId,
                                TopUpCredits(so.quantity, payment.amount), t, gen)
                       c == IF payment.requestId # NoReq /\ payment.matchReportId = NoReq
                            THEN [b EXCEPT !.payments[i].matchReportId = payment.requestId]
                            ELSE b
                   IN MarkApplied(c, so.id)
              ELSE UnlockReportOf(d1, payment)
        d3 == IF so.subscription # NoId
              THEN LET creditsBefore == reqUser.matchCredits
                       newCredits == RolloverBalance(getCreditsForPlan(pl, payment.planType),
                                         getMaxRolloverCredits(pl, payment.planType),
                                         creditsBefore)
                       user == [reqUser EXCEPT !.subscriptionStatus = "active",
                                               !.subscriptionPlan = payment.planType,
                                               !.stripeSubscriptionId = so.subscription,
                                               !.matchCredits = newCredits,
                                               !.subscriptionExpiresAt =
                                                   SubscriptionExpiry(payment.planType, t, @)]
                   IN MarkApplied(
                        [d2 EXCEPT !.ledger = Append(@, LedgerRow(reqUser.email, NoReq,
                                                  newCredits - creditsBefore, creditsBefore,
                                                  newCredits, "added",
                                                  "subscription_allocation", payment.planType)),
                                   !.users[reqUser.email] = SaveUser(@, reqUser, user)],
                        so.id)
              ELSE d2
    IN SyncOneSynced(d3)

\* branch 3: no provider id on the record; search the listed sessions
SyncOneByList(d, i, payment, requestId, t) ==
    LET S == ListedPaidSessions(requestId) IN
    IF S # {} /\ SessionObject(NewestSession(S)).payment_intent # NoId
    THEN LET d1 == [d EXCEPT !.payments[i].stripePaymentIntentId =
                                 SessionObject(NewestSession(S)).payment_intent,
                             !.payments[i].status = "succeeded",
                             !.payments[i].paidAt = t]
         IN SyncOneSynced(UnlockReportOf(d1, payment))
    ELSE SyncOneNotCompleted(d)

\* the handler past its short-circuit: payment is the document it loaded
SyncOneApply(d, pl, i, payment, requestId, reqUser, t, gen) ==
    IF payment.stripePaymentIntentId # NoId THEN SyncOneByIntent(d, i, payment, t)
    ELSE IF payment.stripeSessionId # NoId
         THEN SyncOneBySession(d, pl, i, payment, reqUser, t, gen)
    ELSE SyncOneByList(d, i, payment, requestId, t)

syncPaymentStatus(d, pl, email, requestId, reqUser, t, gen) ==
    LET i == SyncOneLookup(d.payments, email, requestId) IN
    IF i = 0 THEN [d EXCEPT !.res = Response("sync-one", 404, FALSE, "Payment not found")]
    ELSE IF AlreadyProcessed(d.payments[i])
         THEN [d EXCEPT !.res = Response("sync-one", 200, TRUE, "already processed")]
    ELSE SyncOneApply(d, pl, i, d.payments[i], requestId, reqUser, t, gen)

\* sync-one when the provider call throws: the catch around the provider
\* block logs the error and the handler falls through to its last response
syncPaymentStatusProviderFails(d, email, requestId) ==
    LET i == SyncOneLookup(d.payments, email, requestId) IN
    IF i = 0 THEN [d EXCEPT !.res = Response("sync-one", 404, FALSE, "Payment not found")]
    ELSE IF AlreadyProcessed(d.payments[i])
         THEN [d EXCEPT !.res = Response("sync-one", 200, TRUE, "already processed")]
    ELSE SyncOneNotCompleted(d)

\* "data: payment" of the responses of sync-one past the lookup: the record
\* as the handler holds it, which is the stored one after its last save
SyncOneData(d, email, requestId) == d.payments[SyncOneLookup(d.payments, email, requestId)]

(***************************************************************************)
(* syncUserPayments (sync-all)                                             *)
(* The loop state st: d the store, user the account document loaded at the *)
(* start (changed in memory by the payment-intent branch and saved after   *)
(* the loop), loaded its value when loaded, updated = subscriptionUpdated. *)
(***************************************************************************)
\* variant: the query without its status filter
PendingOfAnyStatus(P, email) ==
    SelectSeq([i \in 1..Len(P) |-> [i |-> i, p |-> P[i]]], LAMBDA x : x.p.email = email)

PendingOf(P, email) ==
    SelectSeq([i \in 1..Len(P) |-> [i |-> i, p |-> P[i]]],
              LAMBDA x : x.p.email = email /\ x.p.status = "pending")

\* top-up credits added without a ledger row (payment-intent and list branches)
AddCreditsUnlogged(d, email, creditsToAdd) ==
    IF d.users[email].exists
    THEN [d EXCEPT !.users[email].matchCredits = @ + creditsToAdd]
    ELSE d

\* top-up credits added with the top_up row (session branch)
AddCreditsLogged(d, email, payment, creditsToAdd) ==
    IF d.users[email].exists
    THEN AddTopUpCredits(d, email, payment.requestId, creditsToAdd)
    ELSE d

SyncAllByIntent(st, pl, x, t) ==
    LET payment == x.p IN
    IF PaymentIntentStatus(payment.stripePaymentIntentId) # "succeeded" THEN st
    ELSE
    LET d1 == [st.d EXCEPT !.payments[x.i].status = "succeeded",
                           !.payments[x.i].paidAt = t]
        sub == isSubscriptionPlan(payment.planType)
        user1 == IF sub
                 THEN [st.user EXCEPT
                          !.subscriptionStatus = "active",
                          !.subscriptionPlan = payment.planType,
                          !.matchCredits = RolloverBalance(getCreditsForPlan(pl, payment.planType),
                                               getMaxRolloverCredits(pl, payment.planType), @),
                          !.subscriptionExpiresAt = SubscriptionExpiry(payment.planType, t, @)]
                 ELSE st.user
        d2 == IF payment.planType = "extra_credit"
              THEN AddCreditsUnlogged(d1, payment.email, payment.amount \div CreditUnitPrice)
              ELSE d1
        d3 == IF sub \/ (payment.planType = "extra_credit" /\ d1.users[payment.email].exists)
              THEN MarkApplied(d2, payment.stripePaymentIntentId) ELSE d2
    IN [st EXCEPT !.d = UnlockReportOf(d3, payment), !.user = user1,
                  !.updated = st.updated \/ sub]

SyncAllBySession(st, pl, x, t) ==
    LET payment == x.p
        so == SessionObject(payment.stripeSessionId)
    IN
    IF so.payment_status # "paid" THEN st
    ELSE
    LET paid == [payment EXCEPT !.status = "succeeded",
                                !.stripePaymentIntentId = so.payment_intent,
                                !.stripeSubscriptionId = so.subscription,
                                !.paidAt = t]
        d1 == [st.d EXCEPT !.payments[x.i].status = "succeeded",
                           !.payments[x.i].stripePaymentIntentId = so.payment_intent,
                           !.payments[x.i].stripeSubscriptionId = so.subscription,
                           !.payments[x.i].paidAt = t]
        exists == d1.users[payment.email].exists
        d2 == IF payment.planType = "extra_credit"
              THEN AddCreditsLogged(d1, payment.email, payment,
                                    TopUpCredits(so.quantity, payment.amount))
              ELSE d1
        d3 == IF isSubscriptionPlan(payment.planType) /\ exists
              THEN AllocateSubscription(d2, pl, payment.email, payment.planType,
                       IF paid.stripeSubscriptionId # NoId THEN paid.stripeSubscriptionId
                       ELSE d2.users[payment.email].stripeSubscriptionId,
                       t, payment.planType)
              ELSE d2
        d4 == IF exists /\ (payment.planType = "extra_credit" \/ isSubscriptionPlan(payment.planType))
              THEN MarkApplied(d3, so.id) ELSE d3
    IN [st EXCEPT !.d = UnlockReportOf(d4, payment),
                  !.updated = st.updated \/ (isSubscriptionPlan(payment.planType) /\ exists)]

SyncAllByList(st, pl, x, t) ==
    LET payment == x.p
        S == IF payment.requestId # NoReq THEN ListedPaidSessions(payment.requestId) ELSE {}
    IN
    IF S = {} THEN st
    ELSE
    LET so == SessionObject(NewestSession(S))
        d1 == [st.d EXCEPT !.payments[x.i].status = "succeeded",
                           !.payments[x.i].stripePaymentIntentId = so.payment_intent,
                           !.payments[x.i].stripeSubscriptionId = so.subscription,
                           !.payments[x.i].paidAt = t]
        exists == d1.users[payment.email].exists
        d2 == IF payment.planType = "extra_credit"
              THEN AddCreditsUnlogged(d1, payment.email,
                                      TopUpCredits(so.quantity, payment.amount))
              ELSE d1
        d3 == IF isSubscriptionPlan(payment.planType) /\ exists
              THEN AllocateSubscription(d2, pl, payment.email, payment.planType,
                                        so.subscription, t, payment.planType)
              ELSE d2
        d4 == IF exists /\ (payment.planType = "extra_credit" \/ isSubscriptionPlan(payment.planType))
              THEN MarkApplied(d3, so.id) ELSE d3
    IN [st EXCEPT !.d = UnlockReportOf(d4, payment),
                  !.updated = st.updated \/ (isSubscriptionPlan(payment.planType) /\ exists)]

SyncAllPayment(st, pl, x, t) ==
    IF x.p.stripePaymentIntentId # NoId THEN SyncAllByIntent(st, pl, x, t)
    ELSE IF x.p.stripeSessionId # NoId THEN SyncAllBySession(st, pl, x, t)
    ELSE SyncAllByList(st, pl, x, t)

RECURSIVE SyncAllLoop(_, _, _, _)
SyncAllLoop(st, pl, pending, t) ==
    IF pending = <<>> THEN st
    ELSE SyncAllLoop(SyncAllPayment(st, pl, Head(pending), t), pl, Tail(pending), t)

\* the handler, given the pending records and the account it loaded
SyncAllRun(d, pl, loaded, pending, t) ==
    LET st == SyncAllLoop([d |-> d, user |-> loaded, updated |-> FALSE], pl, pending, t)
        d1 == IF st.updated
              THEN [st.d EXCEPT !.users[loaded.email] = SaveUser(@, loaded, st.user)]
              ELSE st.d
    IN [d1 EXCEPT !.res = Response("sync-all", 200, TRUE, "synced")]

syncUserPayments(d, pl, email, t) ==
    SyncAllRun(d, pl, d.users[email], PendingOf(d.payments, email), t)

\* sync-all when every provider call throws: the catch inside the loop logs
\* the error of each record and the loop goes on to the next one
syncUserPaymentsProviderFails(d, email) ==
    [d EXCEPT !.res = Response("sync-all", 200, TRUE, "synced")]

\* data.syncedCount of the response of sync-all that turned store d0 into d1
syncedCount(d0, d1) ==
    Cardinality({i \in 1..Len(d0.payments) :
                    d0.payments[i].status = "pending" /\ d1.payments[i].status = "succeeded"})

(***************************************************************************)
(* syncPaymentsForUser (login-time sync)                                   *)
(* st.user is the account document the caller passed; it is saved inside   *)
(* the loop after each subscription payment.                               *)
(***************************************************************************)
LoginSyncPayment(st, pl, x, t) ==
    LET payment == x.p
        byIntent == payment.stripePaymentIntentId # NoId
        S == IF ~byIntent /\ payment.requestId # NoReq
             THEN ListedPaidSessions(payment.requestId) ELSE {}
        updated == IF byIntent
                   THEN PaymentIntentStatus(payment.stripePaymentIntentId) = "succeeded"
                   ELSE S # {}
    IN
    IF ~updated THEN st
    ELSE
    LET d1 == IF byIntent
              THEN [st.d EXCEPT !.payments[x.i].status = "succeeded",
                                !.payments[x.i].paidAt = t]
              ELSE LET so == SessionObject(NewestSession(S)) IN
                   [st.d EXCEPT !.payments[x.i].status = "succeeded",
                                !.payments[x.i].stripePaymentIntentId = so.payment_intent,
                                !.payments[x.i].stripeSubscriptionId = so.subscription,
                                !.payments[x.i].paidAt = t]
        saved == d1.payments[x.i]
        sub == isSubscriptionPlan(payment.planType)
        user1 == IF sub
                 THEN [st.user EXCEPT
                          !.subscriptionStatus = "active",
                          !.subscriptionPlan = payment.planType,
                          !.stripeSubscriptionId =
                              IF saved.stripeSubscriptionId # NoId
                              THEN saved.stripeSubscriptionId ELSE @,
                          !.matchCredits = RolloverBalance(getCreditsForPlan(pl, payment.planType),
                                               getMaxRolloverCredits(pl, payment.planType), @),
                          !.subscriptionExpiresAt = SubscriptionExpiry(payment.planType, t, @)]
                 ELSE st.user
        d2 == IF sub
              THEN MarkApplied([d1 EXCEPT !.users[st.user.email] = SaveUser(@, st.loaded, user1)],
                               IF byIntent THEN payment.stripePaymentIntentId
                               ELSE NewestSession(S))
              ELSE d1
    IN [st EXCEPT !.d = UnlockReportOf(d2, payment), !.user = user1,
                  !.loaded = IF sub THEN user1 ELSE @]

RECURSIVE LoginSyncLoop(_, _, _, _)
LoginSyncLoop(st, pl, pending, t) ==
    IF pending = <<>> THEN st
    ELSE LoginSyncLoop(LoginSyncPayment(st, pl, Head(pending), t), pl, Tail(pending), t)

LoginSyncRun(d, pl, loaded, pending, t) ==
    LET st == LoginSyncLoop([d |-> d, user |-> loaded, loaded |-> loaded], pl, pending, t)
    IN [st.d EXCEPT !.res = Response("login", 200, TRUE, "logged in")]

syncPaymentsForUser(d, pl, email, t) ==
    LoginSyncRun(d, pl, d.users[email], PendingOf(d.payments, email), t)

(***************************************************************************)
(* getUserRequests (dashboard auto-sync of pending payments)               *)
(***************************************************************************)
DashboardSyncPayment(d, x, t) ==
    LET payment == x.p IN
    IF payment.stripePaymentIntentId # NoId
    THEN IF PaymentIntentStatus(payment.stripePaymentIntentId) = "succeeded"
         THEN UnlockReportOf([d EXCEPT !.payments[x.i].status = "succeeded",
                                       !.payments[x.i].paidAt = t], payment)
         ELSE d
    ELSE LET S == IF payment.requestId # NoReq
                  THEN ListedPaidSessions(payment.requestId) ELSE {}
         IN IF S # {} /\ SessionObject(NewestSession(S)).payment_intent # NoId
            THEN UnlockReportOf(
                   [d EXCEPT !.payments[x.i].stripePaymentIntentId =
                                 SessionObject(NewestSession(S)).payment_intent,
                             !.payments[x.i].status = "succeeded",
                             !.payments[x.i].paidAt = t], payment)
            ELSE d

RECURSIVE DashboardSyncLoop(_, _, _)
DashboardSyncLoop(d, pending, t) ==
    IF pending = <<>> THEN d
    ELSE DashboardSyncLoop(DashboardSyncPayment(d, Head(pending), t), Tail(pending), t)

DashboardRun(d, pending, t) ==
    [DashboardSyncLoop(d, pending, t) EXCEPT !.res = Response("dashboard", 200, TRUE, "requests")]

getUserRequests(d, email, t) == DashboardRun(d, PendingOf(d.payments, email), t)

(***************************************************************************)
(* unlockRequest and processMatching (credit-consuming operations)         *)
(***************************************************************************)
Owner(requestId) == "a"

\* variant: the check off by one
InsufficientCreditsBelowZero(user) == user.matchCredits < 0

\* "!user.matchCredits || user.matchCredits < 1"
InsufficientCredits(user) == user.matchCredits < 1

\* the deduction, once the checks passed
UnlockApply(d, reqUser, id) ==
    LET user == [reqUser EXCEPT !.matchCredits = @ - 1] IN
    [d EXCEPT !.users[reqUser.email] = SaveUser(@, reqUser, user),
              !.ledger = Append(@, LedgerRow(reqUser.email, id, 1, reqUser.matchCredits,
                             user.matchCredits, "deducted", "unlock_request", "unlock")),
              !.reports[id] = "unlocked",
              !.res = Response("unlock", 200, TRUE, "unlocked")]

\* variant: the checks without the credit check
UnlockPassesUnchecked(d, reqUser, id) ==
    /\ Owner(id) = reqUser.email
    /\ d.reports[id] \notin {"none", "unlocked"}

\* the checks of unlockRequest that let the deduction run
UnlockPasses(d, reqUser, id) ==
    /\ Owner(id) = reqUser.email
    /\ d.reports[id] \notin {"none", "unlocked"}
    /\ ~InsufficientCredits(reqUser)

\* reqUser is req.user, the account document the middleware loaded
unlockRequest(d, reqUser, id) ==
    IF Owner(id) # reqUser.email
    THEN [d EXCEPT !.res = Response("unlock", 404, FALSE, "Request not found")]
    ELSE IF d.reports[id] = "none"
    THEN [d EXCEPT !.res = Response("unlock", 404, FALSE, "Match report not found")]
    ELSE IF d.reports[id] = "unlocked"
    THEN [d EXCEPT !.res = Response("unlock", 200, TRUE, "already unlocked")]
    ELSE IF InsufficientCredits(reqUser)
    THEN [d EXCEPT !.res = Response("unlock", 400, FALSE, "NO_CREDITS")]
    ELSE UnlockApply(d, reqUser, id)

\* "if (user && user.matchCredits > 0)" before the deduction of processMatching
HasCredits(user) == user.matchCredits > 0

\* the AI generation and what follows it; user is the document loaded before
MatchApply(d, user, id, gen) ==
    IF gen # "ok"
    THEN [d EXCEPT !.res = Response("match", 500, FALSE, "error")]
    ELSE LET d1 == IF HasCredits(user)
                   THEN [d EXCEPT !.users[user.email] =
                                      SaveUser(@, user, [user EXCEPT !.matchCredits = @ - 1]),
                                  !.ledger = Append(@, LedgerRow(user.email, id, 1,
                                                 user.matchCredits, user.matchCredits - 1,
                                                 "deducted", "match_generation", "match"))]
                   ELSE d
         IN [d1 EXCEPT !.reports[id] = "completed",
                       !.suppliers[id] = TRUE,
                       !.res = Response("match", 200, TRUE, "generated")]

\* the checks of processMatching that let the AI generation run
MatchPasses(d, caller, user, id, t) ==
    /\ d.reports[id] # "completed"
    /\ caller # "anon" /\ hasActivePlan(user, t)

\* caller is an email, or "anon" for an unauthenticated request; user is the
\* account document the handler loads
processMatching(d, caller, user, id, t, gen) ==
    IF d.reports[id] = "completed"
    THEN [d EXCEPT !.res = Response("match", 200, TRUE, "already generated")]
    ELSE IF ~(caller # "anon" /\ hasActivePlan(user, t))
    THEN [d EXCEPT !.reports[id] = "pending",
                   !.suppliers[id] = TRUE,
                   !.res = Response("match", 200, TRUE, "fallback")]
    ELSE MatchApply(d, user, id, gen)

(***************************************************************************)
(* generateAIMatch ("generate" of an unlocked report) and manualUnlock     *)
(***************************************************************************)
\* "Verify user has paid for this report": a succeeded PaymentRecord of the
\* request
PaidFor(d, id) ==
    \E i \in 1..Len(d.payments) :
        d.payments[i].requestId = id /\ d.payments[i].status = "succeeded"

\* reqUser is req.user of the authenticated caller
generateAIMatch(d, reqUser, id, gen) ==
    IF d.reports[id] = "none"
    THEN [d EXCEPT !.res = Response("generate", 404, FALSE, "Match report not found")]
    ELSE IF d.reports[id] # "unlocked"
    THEN [d EXCEPT !.res = Response("generate", 400, FALSE, "not unlocked")]
    ELSE IF ~PaidFor(d, id)
    THEN [d EXCEPT !.res = Response("generate", 403, FALSE, "Payment required")]
    ELSE IF gen # "ok"
    THEN [d EXCEPT !.res = Response("generate", 500, FALSE, "error")]
    ELSE [d EXCEPT !.reports[id] = "completed",
                   !.suppliers[id] = TRUE,
                   !.res = Response("generate", 200, TRUE, "generated")]

\* the PaymentRecord manualUnlock stores: succeeded, without provider ids
ManualPayment(id, t) ==
    [requestId |-> id, matchReportId |-> id, email |-> Owner(id), amount |-> BasicPrice,
     planType |-> "one-time", status |-> "succeeded", stripeSessionId |-> NoId,
     stripePaymentIntentId |-> NoId, stripeSubscriptionId |-> NoId, paidAt |-> t]

\* POST /payments/:requestId/unlock, a route without authentication
manualUnlock(d, id, t) ==
    IF d.reports[id] = "none"
    THEN [d EXCEPT !.res = Response("manual-unlock", 404, FALSE, "Match report not found")]
    ELSE IF d.reports[id] = "unlocked"
    THEN [d EXCEPT !.res = Response("manual-unlock", 200, TRUE, "already unlocked")]
    ELSE [d EXCEPT !.payments = Append(@, ManualPayment(id, t)),
                   !.reports[id] = "unlocked",
                   !.res = Response("manual-unlock", 200, TRUE, "unlocked")]

(***************************************************************************)
(* createCheckoutSession                                                   *)
(***************************************************************************)
\* getPricingPlans has an entry for the plan type
HasPricing(pl, planType) ==
    \/ planType = "extra_credit"
    \/ planType = "one-time" /\ \E p \in pl : p.planType = "basic"
    \/ isSubscriptionPlan(planType) /\ ActivePlan(pl, planType) # {}

\* the store after the handler up to the point where the provider session is
\* created; proceed tells whether a session is created
CheckoutPrepare(d, pl, requestId, planType) ==
    LET d1 == IF requestId # General /\ d.reports[requestId] = "none"
                 /\ planType # "extra_credit"
              THEN [d EXCEPT !.reports[requestId] = "pending"] ELSE d
        hasReport == requestId # General /\ d1.reports[requestId] # "none"
        existing == requestId # General
                    /\ \E i \in 1..Len(d1.payments) :
                           /\ d1.payments[i].requestId = requestId
                           /\ d1.payments[i].status = "succeeded"
    IN IF planType # "extra_credit" /\ ~hasReport
       THEN [d |-> [d1 EXCEPT !.res = Response("checkout", 404, FALSE, "Match report not found")],
             proceed |-> FALSE]
       ELSE IF ~HasPricing(pl, planType)
       THEN [d |-> [d1 EXCEPT !.res = Response("checkout", 400, FALSE, "Invalid plan type")],
             proceed |-> FALSE]
       ELSE IF existing /\ hasReport
       THEN [d |-> [d1 EXCEPT !.reports[requestId] = "unlocked",
                              !.res = Response("checkout", 200, TRUE, "already unlocked")],
             proceed |-> FALSE]
       ELSE [d |-> d1, proceed |-> TRUE]

\* the pending PaymentRecord stored for the new provider session s
CheckoutPayment(d, s, requestId, planType, email, quantity) ==
    [requestId |-> IF requestId = General THEN NoReq ELSE requestId,
     matchReportId |-> IF requestId # General /\ d.reports[requestId] # "none"
                       THEN requestId ELSE NoReq,
     email |-> email,
     amount |-> PlanAmount(planType) * quantity,
     planType |-> planType,
     status |-> "pending",
     stripeSessionId |-> s,
     stripePaymentIntentId |-> NoId,
     stripeSubscriptionId |-> NoId,
     paidAt |-> NoTime]

(***************************************************************************)
(* tokenService: access tokens of e-mail links.  Token times are in hours. *)
(***************************************************************************)
PaymentExpiry == 720
VerificationExpiry == 24
AccountSetupExpiry == 168
PasswordResetExpiry == 1

TokenTypes == {"payment", "verification", "accountSetup", "passwordReset"}

\* the request ids a token is issued for or checked against
TokenRequests == {"R1", "R2"}

\* an expiry table with the 30 days of the payment type for every type
TokenExpiryPaymentOnly(type) == PaymentExpiry

\* TOKEN_EXPIRY[payload.type] || TOKEN_EXPIRY.payment
TokenExpiry(type) ==
    IF type = "verification" THEN VerificationExpiry
    ELSE IF type = "accountSetup" THEN AccountSetupExpiry
    ELSE IF type = "passwordReset" THEN PasswordResetExpiry
    ELSE PaymentExpiry

\* an e-mail address as a caller writes it: the address, in upper case or
\* not, with blanks around it or not
RawEmail(addr, upper, padded) == [addr |-> addr, upper |-> upper, padded |-> padded]

TokenEmails == {RawEmail("a", FALSE, FALSE), RawEmail("a", TRUE, FALSE),
                RawEmail("a", FALSE, TRUE), RawEmail("b", FALSE, FALSE)}

toLowerCase(e) == [e EXCEPT !.upper = FALSE]

trim(e) == [e EXCEPT !.padded = FALSE]

\* email.toLowerCase().trim()
NormalizeEmail(e) == trim(toLowerCase(e))

\* JSON.stringify(payload): the text of the payload as bytes, one byte for
\* each of email, requestId and type and two for the timestamp
AddrByte(addr) == IF addr = "a" THEN 97 ELSE 98

RequestByte(requestId) ==
    IF requestId = NoReq THEN 0 ELSE IF requestId = "R1" THEN 49 ELSE 50

TypeByte(type) ==
    IF type = "payment" THEN 112
    ELSE IF type = "verification" THEN 118
    ELSE IF type = "accountSetup" THEN 97
    ELSE 114

JSONstringify(payload) ==
    <<AddrByte(payload.email.addr), RequestByte(payload.requestId), TypeByte(payload.type),
      payload.timestamp \div 256, payload.timestamp % 256>>

\* JSON.parse(payloadString) does not throw
Parsable(bytes) ==
    /\ Len(bytes) = 5
    /\ bytes[1] \in {AddrByte("a"), AddrByte("b")}
    /\ bytes[2] \in {RequestByte(r) : r \in TokenRequests \cup {NoReq}}
    /\ bytes[3] \in {TypeByte(ty) : ty \in TokenTypes}

JSONparse(bytes) ==
    [email |-> RawEmail(IF bytes[1] = AddrByte("a") THEN "a" ELSE "b", FALSE, FALSE),
     requestId |-> CHOOSE r \in TokenRequests \cup {NoReq} : RequestByte(r) = bytes[2],
     type |-> CHOOSE ty \in TokenTypes : TypeByte(ty) = bytes[3],
     timestamp |-> bytes[4] * 256 + bytes[5]]

\* Buffer.from(payloadString).toString("base64url"): three bytes give four
\* characters, a rest of two bytes three, a rest of one byte two, the unused
\* low bits of the last character zero, no padding.  A character is its
\* 6-bit value.
RECURSIVE Base64UrlEncode(_)
Base64UrlEncode(bytes) ==
    IF bytes = <<>> THEN <<>>
    ELSE IF Len(bytes) = 1
    THEN LET n == bytes[1] * 16 IN <<n \div 64, n % 64>>
    ELSE IF Len(bytes) = 2
    THEN LET n == (bytes[1] * 256 + bytes[2]) * 4
         IN <<n \div 4096, (n \div 64) % 64, n % 64>>
    ELSE LET n == bytes[1] * 65536 + bytes[2] * 256 + bytes[3]
         IN <<n \div 262144, (n \div 4096) % 64, (n \div 64) % 64, n % 64>>
            \o Base64UrlEncode(SubSeq(bytes, 4, Len(bytes)))

\* Buffer.from(payloadBase64, "base64url"): four characters give three
\* bytes; of a rest of three or two characters the bits beyond the last
\* whole byte are dropped unread
RECURSIVE Base64UrlDecode(_)
Base64UrlDecode(chars) ==
    IF Len(chars) <= 1 THEN <<>>
    ELSE IF Len(chars) = 2
    THEN <<(chars[1] * 64 + chars[2]) \div 16>>
    ELSE IF Len(chars) = 3
    THEN LET n == (chars[1] * 4096 + chars[2] * 64 + chars[3]) \div 4
         IN <<n \div 256, n % 256>>
    ELSE LET n == chars[1] * 262144 + chars[2] * 4096 + chars[3] * 64 + chars[4]
         IN <<n \div 65536, (n \div 256) % 256, n % 256>>
            \o Base64UrlDecode(SubSeq(chars, 5, Len(chars)))

\* HMAC-SHA256 under the server's secret: distinct texts, distinct digests
hmac(payloadString) == [mac |-> payloadString]

generateToken(email, requestId, type, t) ==
    LET payload == [email |-> NormalizeEmail(email), requestId |-> requestId,
                    type |-> type, timestamp |-> t]
        payloadString == JSONstringify(payload)
    IN [payload |-> Base64UrlEncode(payloadString), signature |-> hmac(payloadString)]

Verification(valid, error) == [valid |-> valid, error |-> error]

\* a verification that would not look at the type or the request of the payload
verifyTokenUnbound(token, expectedEmail, expectedRequestId, type, t) ==
    LET payloadString == Base64UrlDecode(token.payload) IN
    IF token.payload = <<>> THEN Verification(FALSE, "Invalid token format")
    ELSE IF ~Parsable(payloadString) THEN Verification(FALSE, "Token verification failed")
    ELSE
    LET payload == JSONparse(payloadString) IN
    IF token.signature # hmac(payloadString)
    THEN Verification(FALSE, "Invalid token signature")
    ELSE IF NormalizeEmail(payload.email) # NormalizeEmail(expectedEmail)
    THEN Verification(FALSE, "Email mismatch")
    ELSE IF t - payload.timestamp > TokenExpiry(payload.type)
    THEN Verification(FALSE, "Token expired")
    ELSE Verification(TRUE, "none")

\* t is Date.now() at the time of the verification
verifyToken(token, expectedEmail, expectedRequestId, type, t) ==
    LET payloadString == Base64UrlDecode(token.payload) IN
    IF token.payload = <<>> THEN Verification(FALSE, "Invalid token format")
    ELSE IF ~Parsable(payloadString) THEN Verification(FALSE, "Token verification failed")
    ELSE
    LET payload == JSONparse(payloadString) IN
    IF token.signature # hmac(payloadString)
    THEN Verification(FALSE, "Invalid token signature")
    ELSE IF NormalizeEmail(payload.email) # NormalizeEmail(expectedEmail)
    THEN Verification(FALSE, "Email mismatch")
    ELSE IF expectedRequestId # NoReq /\ payload.requestId # expectedRequestId
    THEN Verification(FALSE, "Request ID mismatch")
    ELSE IF payload.type # type
    THEN Verification(FALSE, "Token type mismatch")
    ELSE IF t - payload.timestamp > TokenExpiry(payload.type)
    THEN Verification(FALSE, "Token expired")
    ELSE Verification(TRUE, "none")

\* no token in the request
AbsentToken == [payload |-> <<>>, signature |-> hmac(<<>>)]

\* the token a caller holds: as issued for (email, requestId, type) at
\* issuedAt, the clock, and the outcome of the last verification
NoToken == [issued |-> FALSE, token |-> AbsentToken, email |-> RawEmail("a", FALSE, FALSE),
            requestId |-> NoReq, type |-> "payment", issuedAt |-> 0, clock |-> 0,
            result |-> "none"]

\* the ages at which a token is on and just past an expiry
AgesOf(types) == UNION {{TokenExpiry(ty), TokenExpiry(ty) + 1} : ty \in types}

\* the types of the tokens of the report and verification links
LinkTypes == {"payment", "verification"}

TokenAges == AgesOf(LinkTypes)

(***************************************************************************)
(* getFullReport and getRequestDetails: the handlers that return supplier  *)
(* contact fields.  The response message is "suppliers" when the supplier  *)
(* list with email, phone and website is returned and is not empty.        *)
(***************************************************************************)
SupplierList(d, op, id) ==
    [d EXCEPT !.res = Response(op, 200, TRUE,
                               IF d.suppliers[id] THEN "suppliers" ELSE "no suppliers")]

\* GET of the full report by link: token and email are the query
\* parameters, production is NODE_ENV === "production", t is Date.now()
getFullReport(d, id, token, email, production, t) ==
    IF d.reports[id] = "none"
    THEN [d EXCEPT !.res = Response("full-report", 404, FALSE, "Match report not found")]
    ELSE IF d.reports[id] \notin {"unlocked", "paid", "pending"}
    THEN [d EXCEPT !.res = Response("full-report", 403, FALSE, "Full report is locked")]
    ELSE IF token # AbsentToken /\ ~verifyToken(token, email, id, "payment", t).valid
    THEN [d EXCEPT !.res = Response("full-report", 403, FALSE, "Invalid or expired access link")]
    ELSE IF token = AbsentToken /\ production
    THEN [d EXCEPT !.res = Response("full-report", 403, FALSE, "Secure access link required")]
    ELSE SupplierList(d, "full-report", id)

\* GET of the request by its authenticated owner; reqUser is req.user
getRequestDetails(d, reqUser, id) ==
    LET status == d.reports[id]
        paid == \E i \in 1..Len(d.payments) :
                    /\ d.payments[i].email = reqUser.email
                    /\ d.payments[i].requestId = id
                    /\ d.payments[i].status = "succeeded"
        hasAccess == status = "completed" \/ (paid /\ status # "unlocked")
        locked(message) == [d EXCEPT !.res = Response("details", 200, TRUE, message)]
    IN IF Owner(id) # reqUser.email
       THEN [d EXCEPT !.res = Response("details", 404, FALSE, "Request not found")]
       ELSE IF status \in {"none", "pending"} THEN locked("pending")
       ELSE IF ~hasAccess /\ status # "unlocked" THEN locked("pending_payment")
       ELSE IF status = "unlocked" /\ ~hasAccess THEN locked("unlocked")
       ELSE SupplierList(d, "details", id)

(***************************************************************************)
(* Initial state and the handlers as atomic steps                          *)
(***************************************************************************)
StartWith(n, R, catalogs) ==
    /\ payments = <<>>
    /\ users \in [Emails -> {[NewUser EXCEPT !.isVerified = TRUE, !.matchCredits = c] :
                                c \in InitBalances}]
    /\ \A e \in Emails : users[e].email = e
    /\ reports = [r \in R |-> "none"]
    /\ suppliers = [r \in R |-> FALSE]
    /\ ledger = <<>>
    /\ applied = [s \in 0..n |-> 0]
    /\ opening = [e \in Emails |-> users[e].matchCredits]
    /\ sessions = [s \in 1..n |-> NoSession]
    /\ plans \in catalogs
    /\ now = 0
    /\ invoices = 0
    /\ inflight = <<>>
    /\ tok = NoToken
    /\ managed = [m \in ManagedRequests |-> NewManagedService]

StartOn(n, R) == StartWith(n, R, PlanCatalogs)

Start(n) == StartOn(n, Requests)

Init == Start(MaxSessions)

Provider == UNCHANGED <<opening, sessions, plans, now, invoices, inflight, tok>>

UnusedSessions == {s \in Sessions : ~sessions[s].created}

\* POST /payments/checkout; persisted = FALSE is the PaymentRecord save failing
\* after the provider session was created
CheckoutSession(email, requestId, planType, quantity, persisted, metadataQuantity) ==
    /\ UnusedSessions # {}
    /\ planType = "extra_credit" \/ (quantity = 1 /\ requestId # General)
    /\ LET s == CHOOSE x \in UnusedSessions : \A y \in UnusedSessions : x <= y
           prep == CheckoutPrepare(DB, plans, requestId, planType)
       IN IF ~prep.proceed
          THEN Install(prep.d) /\ UNCHANGED sessions
          ELSE /\ sessions' = [sessions EXCEPT ![s] =
                      [created |-> TRUE, requestId |-> requestId, planType |-> planType,
                       email |-> email, quantity |-> quantity, paid |-> FALSE,
                       metadataQuantity |-> metadataQuantity]]
               /\ Install([prep.d EXCEPT
                      !.payments = IF persisted
                                   THEN Append(@, CheckoutPayment(prep.d, s, requestId,
                                                     planType, email, quantity))
                                   ELSE @,
                      !.res = IF persisted
                              THEN Response("checkout", 200, TRUE, "session created")
                              ELSE Response("checkout", 500, FALSE, "error")])
    /\ UNCHANGED <<opening, plans, now, invoices, inflight, tok>>

\* the session carries metadata.quantity (sessionParams.metadata.quantity)
CreateCheckoutSession(email, requestId, planType, quantity, persisted) ==
    CheckoutSession(email, requestId, planType, quantity, persisted, TRUE)

\* a top-up session of the provider account whose metadata carries no
\* quantity: the handlers then derive the credits from the amount
CheckoutWithoutQuantity(email, requestId, quantity, persisted) ==
    CheckoutSession(email, requestId, "extra_credit", quantity, persisted, FALSE)

\* the customer completes the checkout at the provider
ProviderPays(s) ==
    /\ sessions[s].created /\ ~sessions[s].paid
    /\ sessions' = [sessions EXCEPT ![s].paid = TRUE]
    /\ UNCHANGED <<payments, users, reports, suppliers, ledger, applied, opening, plans,
                   now, invoices, inflight, tok, managed>>

\* delivery (or redelivery) of checkout.session.completed for session s
WebhookCheckoutCompleted(s, gen) ==
    /\ sessions[s].created /\ sessions[s].paid
    /\ Install(handleWebhookRequest(DB, plans, TRUE, s, now, gen))
    /\ Provider

\* a request to the webhook endpoint whose signature does not verify
WebhookRejected(s, gen) ==
    /\ sessions[s].created /\ sessions[s].paid
    /\ Install(handleWebhookRequest(DB, plans, FALSE, s, now, gen))
    /\ Provider

\* delivery of invoice.payment_succeeded for the subscription of session s
WebhookInvoicePaid(s) ==
    /\ sessions[s].created /\ sessions[s].paid /\ isSubscriptionPlan(sessions[s].planType)
    /\ invoices < MaxInvoices
    /\ invoices' = invoices + 1
    /\ Install(handleInvoicePaid(DB, s))
    /\ UNCHANGED <<opening, sessions, plans, now, inflight, tok>>

SyncOne(email, requestId, gen) ==
    /\ users[email].exists
    /\ Install(syncPaymentStatus(DB, plans, email, requestId, users[email], now, gen))
    /\ Provider

SyncAll(email) ==
    /\ users[email].exists
    /\ Install(syncUserPayments(DB, plans, email, now))
    /\ Provider

LoginSync(email) ==
    /\ users[email].exists
    /\ Install(syncPaymentsForUser(DB, plans, email, now))
    /\ Provider

DashboardSync(email) ==
    /\ users[email].exists
    /\ Install(getUserRequests(DB, email, now))
    /\ Provider

UnlockRequest(email, requestId) ==
    /\ users[email].exists
    /\ Install(unlockRequest(DB, users[email], requestId))
    /\ Provider

ProcessMatching(caller, requestId, gen) ==
    /\ caller \in Emails => users[caller].exists
    /\ Install(processMatching(DB, caller,
                               IF caller \in Emails THEN users[caller] ELSE NoUser,
                               requestId, now, gen))
    /\ Provider

GenerateAIMatch(email, requestId, gen) ==
    /\ users[email].exists
    /\ Install(generateAIMatch(DB, users[email], requestId, gen))
    /\ Provider

ManualUnlock(requestId) ==
    /\ Len(payments) < MaxPayments
    /\ Install(manualUnlock(DB, requestId, now))
    /\ Provider

\* the tokens a caller may present: none, or one issued for an address and
\* a request, of either type, now or long enough ago to have expired
PresentedTokens ==
    {AbsentToken} \cup {generateToken(e, r, ty, 0) :
                            e \in TokenEmails, r \in Requests, ty \in LinkTypes}

GetFullReport(id, token, email, production, age) ==
    /\ Install(getFullReport(DB, id, token, email, production, age))
    /\ Provider

GetRequestDetails(email, id) ==
    /\ users[email].exists
    /\ Install(getRequestDetails(DB, users[email], id))
    /\ Provider

Tick ==
    /\ now < MaxTime
    /\ now' = now + 1
    /\ UNCHANGED <<payments, users, reports, suppliers, ledger, applied, opening,
                   sessions, plans, invoices, inflight, tok, managed>>

Next ==
    \/ \E e \in Emails, r \in Requests \cup {General}, pt \in PlanTypes, q \in Quantities,
          ok \in BOOLEAN : CreateCheckoutSession(e, r, pt, q, ok)
    \/ \E s \in Sessions : ProviderPays(s)
    \/ \E s \in Sessions, g \in GenOutcomes : WebhookCheckoutCompleted(s, g)
    \/ \E s \in Sessions, g \in GenOutcomes : WebhookRejected(s, g)
    \/ \E s \in Sessions : WebhookInvoicePaid(s)
    \/ \E e \in Emails, r \in Requests, g \in GenOutcomes : SyncOne(e, r, g)
    \/ \E e \in Emails : SyncAll(e)
    \/ \E e \in Emails : LoginSync(e)
    \/ \E e \in Emails : DashboardSync(e)
    \/ \E e \in Emails, r \in Requests : UnlockRequest(e, r)
    \/ \E c \in Emails \cup {"anon"}, r \in Requests, g \in GenOutcomes :
          ProcessMatching(c, r, g)
    \/ Tick

Spec == Init /\ [][Next]_vars

(***************************************************************************)
(* The handlers interleaved.  A handler is two steps: Begin runs it up to  *)
(* the provider or AI call it awaits, with the documents it has loaded by  *)
(* then (the PaymentRecord, the pending list, req.user); Finish runs the   *)
(* rest on the store as it is by then.  A handler that returns before that *)
(* call changes nothing and has no Begin.                                  *)
(***************************************************************************)
NoPayment == [requestId |-> NoReq, matchReportId |-> NoReq, email |-> "a", amount |-> 0,
              planType |-> "extra_credit", status |-> "pending", stripeSessionId |-> NoId,
              stripePaymentIntentId |-> NoId, stripeSubscriptionId |-> NoId,
              paidAt |-> NoTime]

Call(op, email, requestId, s, i, payment, reqUser, pending) ==
    [op |-> op, email |-> email, requestId |-> requestId, s |-> s, i |-> i,
     payment |-> payment, reqUser |-> reqUser, pending |-> pending]

Without(k) == [j \in 1..(Len(inflight) - 1) |-> IF j < k THEN inflight[j] ELSE inflight[j + 1]]

Frame == UNCHANGED <<opening, sessions, plans, now, invoices, tok>>

Begin(call) ==
    /\ Len(inflight) < MaxInflight
    /\ inflight' = Append(inflight, call)
    /\ UNCHANGED <<payments, users, reports, suppliers, ledger, applied, managed>>
    /\ Frame

Finish(k, d) ==
    /\ Install(d)
    /\ inflight' = Without(k)
    /\ Frame

BeginWebhook(s) ==
    /\ sessions[s].created /\ sessions[s].paid
    /\ WebhookProcesses(WebhookLookup(payments, SessionObject(s)))
    /\ Begin(Call("webhook", sessions[s].email, NoReq, s, 0, NoPayment, NoUser, <<>>))

FinishWebhook(k, gen) ==
    /\ inflight[k].op = "webhook"
    /\ Finish(k, WebhookApply(DB, plans, SessionObject(inflight[k].s), now, gen))

BeginSyncOne(email, requestId) ==
    /\ users[email].exists
    /\ LET i == SyncOneLookup(payments, email, requestId) IN
       /\ i # 0
       /\ ~AlreadyProcessed(payments[i])
       /\ Begin(Call("sync-one", email, requestId, NoId, i, payments[i], users[email], <<>>))

FinishSyncOne(k, gen) ==
    /\ inflight[k].op = "sync-one"
    /\ LET c == inflight[k] IN
       Finish(k, SyncOneApply(DB, plans, c.i, c.payment, c.requestId, c.reqUser, now, gen))

BeginSyncAll(email) ==
    /\ users[email].exists
    /\ PendingOf(payments, email) # <<>>
    /\ Begin(Call("sync-all", email, NoReq, NoId, 0, NoPayment, users[email],
                  PendingOf(payments, email)))

FinishSyncAll(k) ==
    /\ inflight[k].op = "sync-all"
    /\ LET c == inflight[k] IN Finish(k, SyncAllRun(DB, plans, c.reqUser, c.pending, now))

BeginUnlock(email, requestId) ==
    /\ users[email].exists
    /\ UnlockPasses(DB, users[email], requestId)
    /\ Begin(Call("unlock", email, requestId, NoId, 0, NoPayment, users[email], <<>>))

FinishUnlock(k) ==
    /\ inflight[k].op = "unlock"
    /\ LET c == inflight[k] IN Finish(k, UnlockApply(DB, c.reqUser, c.requestId))

BeginMatch(email, requestId) ==
    /\ users[email].exists
    /\ MatchPasses(DB, email, users[email], requestId, now)
    /\ Begin(Call("match", email, requestId, NoId, 0, NoPayment, users[email], <<>>))

FinishMatch(k, gen) ==
    /\ inflight[k].op = "match"
    /\ LET c == inflight[k] IN Finish(k, MatchApply(DB, c.reqUser, c.requestId, gen))

InitRace == Start(RaceSessions)

\* the webhook, sync-one and sync-all interleaved on the purchases
NextSyncRace ==
    \/ \E e \in Emails, r \in Requests \cup {General}, pt \in PlanTypes, q \in Quantities,
          ok \in BOOLEAN : CreateCheckoutSession(e, r, pt, q, ok)
    \/ \E s \in Sessions : ProviderPays(s)
    \/ \E s \in Sessions : BeginWebhook(s)
    \/ \E e \in Emails, r \in Requests : BeginSyncOne(e, r)
    \/ \E e \in Emails : BeginSyncAll(e)
    \/ \E k \in DOMAIN inflight, g \in GenOutcomes : FinishWebhook(k, g)
    \/ \E k \in DOMAIN inflight, g \in GenOutcomes : FinishSyncOne(k, g)
    \/ \E k \in DOMAIN inflight : FinishSyncAll(k)
    \/ Tick

SpecSyncRace == InitRace /\ [][NextSyncRace]_vars

\* all reconciliation handlers and the credit-consuming operations
NextRace ==
    \/ NextSyncRace
    \/ \E e \in Emails, r \in Requests : BeginUnlock(e, r)
    \/ \E e \in Emails, r \in Requests : BeginMatch(e, r)
    \/ \E k \in DOMAIN inflight : FinishUnlock(k)
    \/ \E k \in DOMAIN inflight, g \in GenOutcomes : FinishMatch(k, g)
    \/ \E e \in Emails : LoginSync(e)
    \/ \E e \in Emails : DashboardSync(e)
    \/ \E c \in Emails \cup {"anon"}, r \in Requests, g \in GenOutcomes :
          ProcessMatching(c, r, g)
    \/ \E e \in Emails, r \in Requests : UnlockRequest(e, r)

SpecRace == InitRace /\ [][NextRace]_vars

(***************************************************************************)
(* Handlers that abort.  A write of a handler (a save() or a create()) may *)
(* throw; the store then stays as the earlier writes of the handler made   *)
(* it.  The writes of a sub-handler are listed as the stores they produce, *)
(* one after the other; aborting after k writes leaves the k-th store.     *)
(***************************************************************************)
StoreAfter(writes, d, k) == IF k = 0 THEN d ELSE writes[k]

\* the writes of the extra_credit branch once the payment is saved: the
\* account with the credits, the top_up row, the report created if missing,
\* the account less the unlock credit, the unlock row, the report unlocked
ExtraCreditWrites(d, email, requestId, creditsToAdd) ==
    LET user == FindOrNewUser(d, email)
        w1 == [d EXCEPT !.users[email] = [user EXCEPT !.matchCredits = @ + creditsToAdd]]
        w2 == AddTopUpCredits(d, email, requestId, creditsToAdd)
    IN IF requestId = NoReq THEN <<w1, w2>>
       ELSE LET w3 == IF w2.reports[requestId] = "none"
                      THEN [w2 EXCEPT !.reports[requestId] = "pending"] ELSE w2
                w4 == IF w3.users[email].matchCredits > 0
                      THEN [w3 EXCEPT !.users[email].matchCredits = @ - 1] ELSE w3
                w5 == DeductUnlockCredit(w3, email, requestId)
                w6 == [w5 EXCEPT !.reports[requestId] = "unlocked"]
            IN <<w1, w2, w3, w4, w5, w6>>

\* the top-up sub-handler aborting after k writes: the error is caught and
\* the event acknowledged ("Payment saved but credit addition failed")
WebhookExtraCreditAborted(d, so, t, k) ==
    LET payment == TopUpRecord(d, so, t)
        d1 == [d EXCEPT !.payments = Append(@, payment)]
        writes == ExtraCreditWrites(d1, payment.email, payment.requestId,
                                    TopUpCredits(so.quantity, payment.amount))
        d2 == StoreAfter(writes, d1, k)
    IN WebhookAck(IF k > 0 THEN MarkApplied(d2, so.id) ELSE d2)

\* the writes of the standard branch once the payment is saved: the report
\* unlocked, then for a subscription the allocation row, then the account
StandardWrites(d, pl, so, payment, t) ==
    LET w1 == [d EXCEPT !.reports[so.requestId] = "unlocked"]
        w3 == AllocateSubscription(w1, pl, payment.email, payment.planType,
                                   so.subscription, t, payment.planType)
        w2 == [w1 EXCEPT !.ledger = w3.ledger]
    IN IF isSubscriptionPlan(payment.planType) THEN <<w1, w2, w3>> ELSE <<w1>>

\* the standard sub-handler aborting after k writes: the error reaches the
\* outer catch of the handler
WebhookStandardAborted(d, pl, so, t, k) ==
    LET payment == StandardRecord(so, t)
        d1 == [d EXCEPT !.payments = Append(@, payment)]
        d2 == StoreAfter(StandardWrites(d1, pl, so, payment, t), d1, k)
    IN [d2 EXCEPT !.res = Response("webhook", 500, FALSE, "error")]

\* the number of writes of the sub-handler of the event of session object so
WebhookWrites(d, pl, so, t) ==
    IF so.planType = "extra_credit"
    THEN Len(ExtraCreditWrites(d, so.customer_email, TopUpRecord(d, so, t).requestId, 1))
    ELSE IF d.reports[so.requestId] = "none" THEN 0
    ELSE Len(StandardWrites(d, pl, so, StandardRecord(so, t), t))

\* checkout.session.completed whose sub-handler aborts after k writes
handleWebhookAborted(d, pl, s, t, k) ==
    LET so == SessionObject(s)
        found == WebhookLookup(d.payments, so)
    IN IF ~WebhookProcesses(found) \/ k >= WebhookWrites(d, pl, so, t) THEN WebhookAck(d)
       ELSE IF so.planType = "extra_credit" THEN WebhookExtraCreditAborted(d, so, t, k)
       ELSE WebhookStandardAborted(d, pl, so, t, k)

\* the writes of unlockRequest: the account, the row, the report
UnlockWrites(d, reqUser, id) ==
    LET w1 == [d EXCEPT !.users[reqUser.email] =
                            SaveUser(@, reqUser, [reqUser EXCEPT !.matchCredits = @ - 1])]
        w3 == UnlockApply(d, reqUser, id)
        w2 == [w1 EXCEPT !.ledger = w3.ledger]
    IN <<w1, w2, w3>>

\* unlockRequest aborting after k writes
unlockRequestAborted(d, reqUser, id, k) ==
    IF ~UnlockPasses(d, reqUser, id) \/ k >= Len(UnlockWrites(d, reqUser, id))
    THEN unlockRequest(d, reqUser, id)
    ELSE [StoreAfter(UnlockWrites(d, reqUser, id), d, k) EXCEPT
             !.res = Response("unlock", 500, FALSE, "Internal server error")]

WebhookAborts(s, k) ==
    /\ sessions[s].created /\ sessions[s].paid
    /\ WebhookProcesses(WebhookLookup(payments, SessionObject(s)))
    /\ k < WebhookWrites(DB, plans, SessionObject(s), now)
    /\ Install(handleWebhookAborted(DB, plans, s, now, k))
    /\ Provider

UnlockAborts(email, requestId, k) ==
    /\ users[email].exists
    /\ UnlockPasses(DB, users[email], requestId)
    /\ k < Len(UnlockWrites(DB, users[email], requestId))
    /\ Install(unlockRequestAborted(DB, users[email], requestId, k))
    /\ Provider

\* the abort points of the longest sub-handler
AbortPoints == 0..(Len(ExtraCreditWrites(DB, "a", "R1", 1)) - 1)

\* the webhook, the syncs and unlockRequest, each of which may abort
NextFault ==
    \/ \E e \in Emails, r \in Requests \cup {General}, pt \in PlanTypes, q \in Quantities,
          ok \in BOOLEAN : CreateCheckoutSession(e, r, pt, q, ok)
    \/ \E s \in Sessions : ProviderPays(s)
    \/ \E s \in Sessions, g \in GenOutcomes : WebhookCheckoutCompleted(s, g)
    \/ \E s \in Sessions, k \in AbortPoints : WebhookAborts(s, k)
    \/ \E e \in Emails, r \in Requests, g \in GenOutcomes : SyncOne(e, r, g)
    \/ \E e \in Emails : SyncAll(e)
    \/ \E e \in Emails, r \in Requests : UnlockRequest(e, r)
    \/ \E e \in Emails, r \in Requests, k \in AbortPoints : UnlockAborts(e, r, k)
    \/ Tick

SpecFault == InitRace /\ [][NextFault]_vars

(***************************************************************************)
(* The purchases and the matching together with the handlers that return   *)
(* the supplier list.                                                      *)
(***************************************************************************)
NextAccess ==
    \/ \E e \in Emails, r \in Requests \cup {General}, pt \in PlanTypes, q \in Quantities,
          ok \in BOOLEAN : CreateCheckoutSession(e, r, pt, q, ok)
    \/ \E s \in Sessions : ProviderPays(s)
    \/ \E s \in Sessions, g \in GenOutcomes : WebhookCheckoutCompleted(s, g)
    \/ \E e \in Emails, r \in Requests, g \in GenOutcomes : SyncOne(e, r, g)
    \/ \E e \in Emails : SyncAll(e)
    \/ \E e \in Emails, r \in Requests : UnlockRequest(e, r)
    \/ \E c \in Emails \cup {"anon"}, r \in Requests, g \in GenOutcomes :
          ProcessMatching(c, r, g)
    \/ \E r \in Requests, tk \in PresentedTokens, e \in TokenEmails, production \in BOOLEAN,
          age \in {0} \cup TokenAges : GetFullReport(r, tk, e, production, age)
    \/ \E e \in Emails, r \in Requests : GetRequestDetails(e, r)
    \/ Tick

SpecAccess == InitRace /\ [][NextAccess]_vars

(***************************************************************************)
(* The life of a report: the purchases, the credit-consuming operations,   *)
(* the generate action and the manual unlock.                              *)
(***************************************************************************)
NextReport ==
    \/ \E e \in Emails, r \in Requests \cup {General}, pt \in PlanTypes, q \in Quantities,
          ok \in BOOLEAN : CreateCheckoutSession(e, r, pt, q, ok)
    \/ \E s \in Sessions : ProviderPays(s)
    \/ \E s \in Sessions, g \in GenOutcomes : WebhookCheckoutCompleted(s, g)
    \/ \E e \in Emails, r \in Requests, g \in GenOutcomes : SyncOne(e, r, g)
    \/ \E e \in Emails : SyncAll(e)
    \/ \E e \in Emails, r \in Requests : UnlockRequest(e, r)
    \/ \E c \in Emails \cup {"anon"}, r \in Requests, g \in GenOutcomes :
          ProcessMatching(c, r, g)
    \/ \E e \in Emails, r \in Requests, g \in GenOutcomes : GenerateAIMatch(e, r, g)
    \/ \E r \in Requests : ManualUnlock(r)
    \/ Tick

SpecReport == Init /\ [][NextReport]_vars

(***************************************************************************)
(* The credit-consuming operations of one account on two requests,         *)
(* interleaved.                                                            *)
(***************************************************************************)
CreditRequests == {"R1", "R2"}

InitCredit == StartOn(RaceSessions, CreditRequests)

NextCredit ==
    \/ \E e \in Emails, r \in CreditRequests \cup {General}, pt \in PlanTypes,
          q \in Quantities, ok \in BOOLEAN : CreateCheckoutSession(e, r, pt, q, ok)
    \/ \E s \in Sessions : ProviderPays(s)
    \/ \E s \in Sessions, g \in GenOutcomes : WebhookCheckoutCompleted(s, g)
    \/ \E c \in Emails \cup {"anon"}, r \in CreditRequests, g \in GenOutcomes :
          ProcessMatching(c, r, g)
    \/ \E e \in Emails, r \in CreditRequests : UnlockRequest(e, r)
    \/ \E e \in Emails, r \in CreditRequests : BeginUnlock(e, r)
    \/ \E e \in Emails, r \in CreditRequests : BeginMatch(e, r)
    \/ \E k \in DOMAIN inflight : FinishUnlock(k)
    \/ \E k \in DOMAIN inflight, g \in GenOutcomes : FinishMatch(k, g)

SpecCredit == InitCredit /\ [][NextCredit]_vars

(***************************************************************************)
(* Subscriptions of every plan type bought one after the other, for two    *)
(* requests, and applied by the webhook and by the sync paths.             *)
(***************************************************************************)
SubscriptionPlanTypes ==
    {"starter_monthly", "starter_annual", "professional_monthly", "professional_annual"}

InitExpiry == StartOn(MaxSessions, CreditRequests)

NextExpiry ==
    \/ \E e \in Emails, r \in CreditRequests, pt \in SubscriptionPlanTypes, ok \in BOOLEAN :
          CreateCheckoutSession(e, r, pt, 1, ok)
    \/ \E s \in Sessions : ProviderPays(s)
    \/ \E s \in Sessions, g \in GenOutcomes : WebhookCheckoutCompleted(s, g)
    \/ \E e \in Emails, r \in CreditRequests, g \in GenOutcomes : SyncOne(e, r, g)
    \/ \E e \in Emails : SyncAll(e)
    \/ \E e \in Emails : LoginSync(e)
    \/ Tick

SpecExpiry == InitExpiry /\ [][NextExpiry]_vars

(***************************************************************************)
(* The plan catalogue under administration: a Plan document is deleted     *)
(* between the checkout of a subscription and the handler that applies it, *)
(* or the lookup of the plan throws inside the webhook.                    *)
(***************************************************************************)
\* DELETE /admin/plans/:id for the plan of a family
deletePlan(pl, family) == {p \in pl : p.planType # family}

DeletePlan(family) ==
    /\ \E p \in plans : p.planType = family
    /\ plans' = deletePlan(plans, family)
    /\ UNCHANGED <<payments, users, reports, suppliers, ledger, applied, opening,
                   sessions, now, invoices, inflight, tok, managed>>

\* the webhook of a subscription whose getCreditsForPlan throws: the record
\* is saved and the report unlocked by then, the allocation has written
\* nothing
WebhookPlanLookupFails(d, pl, s, t) == handleWebhookAborted(d, pl, s, t, 1)

PlanLookupFails(s) ==
    /\ isSubscriptionPlan(sessions[s].planType)
    /\ WebhookAborts(s, 1)

PlanFamilies == {p.planType : p \in SeedPlans}

NextPlan ==
    \/ \E e \in Emails, r \in Requests, pt \in SubscriptionPlanTypes, ok \in BOOLEAN :
          CreateCheckoutSession(e, r, pt, 1, ok)
    \/ \E s \in Sessions : ProviderPays(s)
    \/ \E f \in PlanFamilies : DeletePlan(f)
    \/ \E s \in Sessions, g \in GenOutcomes : WebhookCheckoutCompleted(s, g)
    \/ \E s \in Sessions : PlanLookupFails(s)
    \/ \E e \in Emails, r \in Requests, g \in GenOutcomes : SyncOne(e, r, g)
    \/ \E e \in Emails : SyncAll(e)
    \/ \E e \in Emails : LoginSync(e)
    \/ Tick

SpecPlan == Init /\ [][NextPlan]_vars

(***************************************************************************)
(* Top-ups of one and two credits under a unit price of $10 and of $20,    *)
(* from sessions with and without the quantity in their metadata, applied  *)
(* by the webhook, sync-one and sync-all.                                  *)
(***************************************************************************)
TopUpQuantities == {1, 2}

PricingCatalogs == {SeedPlans, SeedPlans \cup {PricingConfig(20)}}

InitTopUp == StartWith(MaxSessions, Requests, PricingCatalogs)

NextTopUp ==
    \/ \E e \in Emails, r \in Requests \cup {General}, q \in TopUpQuantities, ok \in BOOLEAN :
          CreateCheckoutSession(e, r, "extra_credit", q, ok)
    \/ \E e \in Emails, r \in Requests \cup {General}, q \in TopUpQuantities, ok \in BOOLEAN :
          CheckoutWithoutQuantity(e, r, q, ok)
    \/ \E s \in Sessions : ProviderPays(s)
    \/ \E s \in Sessions, g \in GenOutcomes : WebhookCheckoutCompleted(s, g)
    \/ \E e \in Emails, r \in Requests, g \in GenOutcomes : SyncOne(e, r, g)
    \/ \E e \in Emails : SyncAll(e)

SpecTopUp == InitTopUp /\ [][NextTopUp]_vars

(***************************************************************************)
(* A managed-service request: its fee and its savings fee are checked out, *)
(* paid and delivered to the webhook (and redelivered), the administrator  *)
(* moves the workflow, the customer buys a report unlock or a top-up       *)
(* besides, and the pending records are synced.                            *)
(***************************************************************************)
ManagedSession(s, m, planType, email) ==
    sessions' = [sessions EXCEPT ![s] =
                    [created |-> TRUE, requestId |-> m, planType |-> planType,
                     email |-> email, quantity |-> 1, paid |-> FALSE,
                     metadataQuantity |-> FALSE]]

CreatePaymentSession(email, m) ==
    /\ UnusedSessions # {}
    /\ LET s == CHOOSE x \in UnusedSessions : \A y \in UnusedSessions : x <= y
           out == createPaymentSession(DB, m, email, s)
       IN /\ Install(out.d)
          /\ IF out.proceed THEN ManagedSession(s, m, "managed_service", email)
             ELSE UNCHANGED sessions
    /\ UNCHANGED <<opening, plans, now, invoices, inflight, tok>>

CreateSavingsFeePaymentSession(email, m) ==
    /\ UnusedSessions # {}
    /\ users[email].exists
    /\ LET s == CHOOSE x \in UnusedSessions : \A y \in UnusedSessions : x <= y
           out == createSavingsFeePaymentSession(DB, m, users[email], s)
       IN /\ Install(out.d)
          /\ IF out.proceed THEN ManagedSession(s, m, "managed_service_savings_fee", email)
             ELSE UNCHANGED sessions
    /\ UNCHANGED <<opening, plans, now, invoices, inflight, tok>>

AdminStages == {"rfq_prep", "final_report"}

QuotedSavings == {100}

UpdateStage(m, stage) ==
    /\ Install(updateStage(DB, m, stage))
    /\ Provider

UpdateQuotes(m, savings) ==
    /\ Install(updateQuotes(DB, m, savings))
    /\ Provider

\* delivery (or redelivery) of checkout.session.completed for a managed session
WebhookManagedCompleted(s) ==
    /\ sessions[s].created /\ sessions[s].paid
    /\ isManagedSession(SessionObject(s))
    /\ Len(payments) < MaxPayments
    /\ Install(handleWebhookRequest(DB, plans, TRUE, s, now, "ok"))
    /\ Provider

NextManaged ==
    \/ \E e \in Emails, m \in ManagedRequests : CreatePaymentSession(e, m)
    \/ \E e \in Emails, m \in ManagedRequests : CreateSavingsFeePaymentSession(e, m)
    \/ \E m \in ManagedRequests, st \in AdminStages : UpdateStage(m, st)
    \/ \E m \in ManagedRequests, sv \in QuotedSavings : UpdateQuotes(m, sv)
    \/ \E s \in Sessions : ProviderPays(s)
    \/ \E s \in Sessions : WebhookManagedCompleted(s)
    \/ \E e \in Emails : SyncAll(e)

SpecManaged == Init /\ [][NextManaged]_vars

(***************************************************************************)
(* The token service on its own: a token is issued, time passes, one       *)
(* character of its payload part is changed, the token is verified.        *)
(***************************************************************************)
Store == UNCHANGED <<payments, users, reports, suppliers, ledger, applied, opening,
                     sessions, plans, now, invoices, inflight, managed>>

\* the character whose 6-bit value differs from that of c in bit b
FlipBit(c, b) == IF (c \div 2^b) % 2 = 1 THEN c - 2^b ELSE c + 2^b

\* the bits of a base64url character
CharBits == 0..5

IssueToken(email, requestId, type) ==
    /\ ~tok.issued
    /\ tok' = [tok EXCEPT !.issued = TRUE,
                          !.token = generateToken(email, requestId, type, tok.clock),
                          !.email = email, !.requestId = requestId, !.type = type,
                          !.issuedAt = tok.clock]
    /\ Store

Elapse(age) ==
    /\ tok.issued
    /\ tok.issuedAt + age > tok.clock
    /\ tok' = [tok EXCEPT !.clock = tok.issuedAt + age]
    /\ Store

\* character p of the payload part is replaced by the character that
\* differs from it in bit b
TamperPayload(p, b) ==
    /\ tok.issued
    /\ tok.token = generateToken(tok.email, tok.requestId, tok.type, tok.issuedAt)
    /\ p \in DOMAIN tok.token.payload
    /\ tok' = [tok EXCEPT !.token.payload[p] = FlipBit(@, b)]
    /\ Store

VerifyToken(expectedEmail, expectedRequestId, type) ==
    /\ tok.issued
    /\ LET v == verifyToken(tok.token, expectedEmail, expectedRequestId, type, tok.clock)
       IN tok' = [tok EXCEPT !.result = IF v.valid THEN "valid" ELSE v.error]
    /\ Store

InitToken == Start(RaceSessions) /\ \A e \in Emails : users[e].matchCredits = 0

NextToken ==
    \/ \E e \in TokenEmails, r \in Requests \cup {NoReq}, ty \in LinkTypes : IssueToken(e, r, ty)
    \/ \E age \in TokenAges : Elapse(age)
    \/ \E p \in 1..Len(tok.token.payload), b \in CharBits : TamperPayload(p, b)
    \/ \E e \in TokenEmails, r \in Requests \cup {NoReq}, ty \in LinkTypes : VerifyToken(e, r, ty)

SpecToken == InitToken /\ [][NextToken]_vars

(***************************************************************************)
(* Tokens of every type, issued for either of two requests or for none,    *)
(* aged to and past every expiry and verified against every expectation.   *)
(***************************************************************************)
NextBinding ==
    \/ \E e \in TokenEmails, r \in TokenRequests \cup {NoReq}, ty \in TokenTypes :
          IssueToken(e, r, ty)
    \/ \E age \in AgesOf(TokenTypes) : Elapse(age)
    \/ \E e \in TokenEmails, r \in TokenRequests \cup {NoReq}, ty \in TokenTypes :
          VerifyToken(e, r, ty)

SpecBinding == InitToken /\ [][NextBinding]_vars

(***************************************************************************)
(* Properties                                                              *)
(***************************************************************************)
PaidSessions == {s \in Sessions : sessions[s].created /\ sessions[s].paid}

\* rows that record a grant: a top-up or a subscription allocation
GrantRows(L) ==
    Cardinality({j \in 1..Len(L) : L[j].reason \in {"top_up", "subscription_allocation"}})

\* the rows a handler added to the ledger of the current state
NewRows(d) == SubSeq(d.ledger, Len(ledger) + 1, Len(d.ledger))

\* the handler left balance, subscription fields, ledger and reports alone
SameEntitlements(d) ==
    /\ d.users = users
    /\ d.ledger = ledger
    /\ d.reports = reports

\* the PaymentRecord p belongs to the purchase of session s
RecordOfSession(p, s) ==
    \/ p.stripeSessionId = s
    \/ p.stripeSessionId = NoId /\ s \in {p.stripePaymentIntentId, p.stripeSubscriptionId}

\* C1: in every reachable state, delivering the checkout.session.completed
\* event of a paid session twice in sequence leaves the same balance, the
\* same subscription expiry and the same ledger as delivering it once, and
\* the two deliveries together add one grant row when the grant is applied
\* and none otherwise, never two.
WebhookReplayIdempotent ==
    \A s \in PaidSessions, g1 \in GenOutcomes, g2 \in GenOutcomes, t2 \in {now, now + 1} :
        LET e == sessions[s].email
            once == handleWebhook(DB, plans, s, now, g1)
            twice == handleWebhook(once, plans, s, t2, g2)
        IN /\ twice.users[e].matchCredits = once.users[e].matchCredits
           /\ twice.users[e].subscriptionExpiresAt = once.users[e].subscriptionExpiresAt
           /\ twice.ledger = once.ledger
           /\ GrantRows(twice.ledger) - GrantRows(ledger) = twice.applied[s] - applied[s]
           /\ twice.applied[s] - applied[s] <= 1

\* the webhook has reconstructed the record of a subscription purchase and
\* applied its grant; the event can be delivered again
WebhookGrantApplied ==
    \E s \in PaidSessions, i \in 1..Len(payments) :
        /\ payments[i].stripeSessionId = NoId
        /\ payments[i].stripeSubscriptionId = s
        /\ payments[i].status = "succeeded"
        /\ applied[s] = 1
        /\ GrantRows(ledger) = 1
        /\ handleWebhook(DB, plans, s, now, "ok").ledger = ledger

\* signed sum of the ledger rows of an account
RECURSIVE SignedSum(_, _)
SignedSum(L, e) ==
    IF L = <<>> THEN 0
    ELSE SignedSum(Tail(L), e)
         + (IF Head(L).email # e THEN 0
            ELSE IF Head(L).transactionType = "added" THEN Head(L).creditsUsed
            ELSE 0 - Head(L).creditsUsed)

\* C3: in every reachable state the balance of every account is its opening
\* balance plus the signed sum of its ledger rows.
LedgerConsistent ==
    \A e \in Emails : users[e].matchCredits = opening[e] + SignedSum(ledger, e)

\* what C4 compares: record statuses, the account, the ledger, the reports
OrderView(d, e) ==
    <<[i \in 1..Len(d.payments) |-> d.payments[i].status], d.users[e], d.ledger, d.reports>>

SyncThenWebhook(s, g) ==
    handleWebhook(syncUserPayments(DB, plans, sessions[s].email, now), plans, s, now, g)

WebhookThenSync(s, g) ==
    syncUserPayments(handleWebhook(DB, plans, s, now, g), plans, sessions[s].email, now)

\* no other paid purchase of the owner of s has a pending record
OnlyPurchaseAwaitingSync(s) ==
    \A i \in 1..Len(payments) :
        (payments[i].email = sessions[s].email /\ payments[i].status = "pending")
        => \/ payments[i].stripeSessionId = s
           \/ SessionObject(payments[i].stripeSessionId).payment_status # "paid"

\* C4 as stated: for every paid purchase and every reachable state, sync-all
\* then the webhook ends in the same record statuses, account, ledger and
\* report statuses as the webhook then sync-all.
OutOfOrderSafe ==
    \A s \in PaidSessions, g \in GenOutcomes :
        OrderView(SyncThenWebhook(s, g), sessions[s].email)
            = OrderView(WebhookThenSync(s, g), sessions[s].email)

\* C4 amended: the two orders agree when no other paid purchase of the same
\* account has a pending record that sync-all would process in the same run.
OutOfOrderSafeSinglePurchase ==
    \A s \in PaidSessions, g \in GenOutcomes :
        OnlyPurchaseAwaitingSync(s)
        => OrderView(SyncThenWebhook(s, g), sessions[s].email)
               = OrderView(WebhookThenSync(s, g), sessions[s].email)

\* a paid purchase, alone in awaiting sync, whose grant both orders apply
SinglePurchaseBothOrders ==
    \E s \in PaidSessions :
        /\ OnlyPurchaseAwaitingSync(s)
        /\ applied[s] = 0
        /\ SyncThenWebhook(s, "ok").applied[s] = 1
        /\ WebhookThenSync(s, "ok").applied[s] = 1
        /\ SyncThenWebhook(s, "ok").users # users

\* C2: under every interleaving of the webhook, sync-one and sync-all acting
\* on the same paid session, the grant or allocation of the purchase is
\* applied to the account at most once.
AtMostOncePerPurchase == \A s \in PaidSessions : applied[s] <= 1

\* C5: a handler that meets a succeeded PaymentRecord returns success and
\* leaves balance, subscription fields, ledger and report statuses as they
\* are: sync-one when the record it resolves for the request is succeeded,
\* sync-all when the owner has succeeded records and none pending, the
\* webhook when the record of its session is succeeded; and sync-all in any
\* state leaves every succeeded record, and the count of its grant, alone.
ShortCircuitOnSucceeded ==
    /\ \A e \in Emails, r \in Requests, g \in GenOutcomes :
           LET i == SyncOneLookup(payments, e, r)
               d == syncPaymentStatus(DB, plans, e, r, users[e], now, g)
           IN (i # 0 /\ payments[i].status = "succeeded")
              => /\ SameEntitlements(d)
                 /\ d.payments = payments
                 /\ d.res.code = 200 /\ d.res.success
    /\ \A e \in Emails :
           LET d == syncUserPayments(DB, plans, e, now) IN
           /\ ((\E i \in 1..Len(payments) :
                    payments[i].email = e /\ payments[i].status = "succeeded")
               /\ PendingOf(payments, e) = <<>>)
              => /\ SameEntitlements(d)
                 /\ d.res.code = 200 /\ d.res.success
           /\ \A i \in 1..Len(payments) :
                  (payments[i].email = e /\ payments[i].status = "succeeded")
                  => /\ d.payments[i] = payments[i]
                     /\ \A s \in Sessions :
                            RecordOfSession(payments[i], s) => d.applied[s] = applied[s]
    /\ \A s \in PaidSessions, g \in GenOutcomes :
           LET d == handleWebhook(DB, plans, s, now, g) IN
           (\E i \in 1..Len(payments) :
                RecordOfSession(payments[i], s) /\ payments[i].status = "succeeded")
           => /\ SameEntitlements(d)
              /\ d.payments = payments
              /\ d.res.code = 200 /\ d.res.success

\* a purchase whose record is succeeded and whose grant was applied, with no
\* pending record left, on which every handler short-circuits
SucceededRecordMet ==
    \E i \in 1..Len(payments) :
        /\ payments[i].status = "succeeded"
        /\ payments[i].stripeSessionId \in PaidSessions
        /\ applied[payments[i].stripeSessionId] = 1
        /\ payments[i].requestId \in Requests
        /\ SyncOneLookup(payments, payments[i].email, payments[i].requestId) = i
        /\ PendingOf(payments, payments[i].email) = <<>>
        /\ syncPaymentStatus(DB, plans, payments[i].email, payments[i].requestId,
                             users[payments[i].email], now, "ok").res.message
               = "already processed"

\* C6: once a PaymentRecord has left pending, no step changes its status
\* again or rewrites its paidAt.
TerminalRecordStep ==
    \A i \in 1..Len(payments) :
        payments[i].status # "pending"
        => /\ payments'[i].status = payments[i].status
           /\ payments'[i].paidAt = payments[i].paidAt

RecordLifecycle == [][TerminalRecordStep]_vars

\* the two rows of a top-up with unlock, and the report unlocked
TwoRowsAndUnlocked(d, e, r) ==
    /\ Len(NewRows(d)) = 2
    /\ NewRows(d)[1].email = e
    /\ NewRows(d)[1].transactionType = "added" /\ NewRows(d)[1].reason = "top_up"
    /\ NewRows(d)[1].creditsUsed = 1
    /\ NewRows(d)[2].email = e
    /\ NewRows(d)[2].transactionType = "deducted" /\ NewRows(d)[2].reason = "unlock_request"
    /\ NewRows(d)[2].creditsUsed = 1
    /\ d.reports[r] = "unlocked"

\* a paid one-credit top-up tied to a request whose report is pending, not
\* yet processed, and the only purchase of its owner awaiting processing
TopUpUnlockCase(s) ==
    /\ s \in PaidSessions
    /\ sessions[s].planType = "extra_credit" /\ sessions[s].quantity = 1
    /\ sessions[s].requestId \in Requests
    /\ reports[sessions[s].requestId] = "pending"
    /\ applied[s] = 0
    /\ \A i \in 1..Len(payments) :
           /\ RecordOfSession(payments[i], s) => payments[i].status = "pending"
           /\ payments[i].status = "pending" => payments[i].stripeSessionId = s

\* C7: such a top-up, processed by the webhook, by sync-one or by sync-all,
\* gets exactly the rows added/top_up of 1 and deducted/unlock_request of 1,
\* and its report ends unlocked.
TopUpWithUnlock ==
    \A s \in Sessions, g \in GenOutcomes :
        TopUpUnlockCase(s)
        => LET e == sessions[s].email
               r == sessions[s].requestId
               i == SyncOneLookup(payments, e, r)
           IN /\ TwoRowsAndUnlocked(handleWebhook(DB, plans, s, now, g), e, r)
              /\ (i # 0 /\ payments[i].stripeSessionId = s)
                 => /\ TwoRowsAndUnlocked(syncPaymentStatus(DB, plans, e, r, users[e], now, g), e, r)
                    /\ TwoRowsAndUnlocked(syncUserPayments(DB, plans, e, now), e, r)

\* the balance the rollover rule gives, from the plan catalogue
ExpectedRollover(pl, planType, currentBalance) ==
    LET creditsGranted == getCreditsForPlan(pl, planType)
        maxRollover == getMaxRolloverCredits(pl, planType)
    IN IF maxRollover > 0 /\ currentBalance > 0
       THEN creditsGranted + (IF currentBalance < maxRollover THEN currentBalance
                              ELSE maxRollover)
       ELSE creditsGranted

\* the subscription_allocation rows a step adds: the first row of the step
\* starts from the stored balance, every row ends at the balance the rule
\* gives, and the last row of the step is the balance then stored
RolloverStep ==
    \A j \in (Len(ledger) + 1)..Len(ledger') :
        ledger'[j].reason = "subscription_allocation"
        => /\ ledger'[j].creditsAfter
                  = ExpectedRollover(plans, ledger'[j].notes, ledger'[j].creditsBefore)
           /\ ledger'[j].creditsUsed = ledger'[j].creditsAfter - ledger'[j].creditsBefore
           /\ j = Len(ledger) + 1
              => ledger'[j].creditsBefore = users[ledger'[j].email].matchCredits
           /\ j = Len(ledger')
              => users'[ledger'[j].email].matchCredits = ledger'[j].creditsAfter

\* C8: whenever the webhook, sync-one or sync-all applies a subscription
\* purchase, the new balance is creditsGranted + min(currentBalance,
\* maxRollover) if maxRollover > 0 and currentBalance > 0, and creditsGranted
\* otherwise.
RolloverCorrect == [][RolloverStep]_vars

\* professional, maxRollover 3, balance 5, grant 15: the balance is 18
RolloverFiveToEighteen ==
    \E j \in 1..Len(ledger) :
        /\ ledger[j].reason = "subscription_allocation"
        /\ ledger[j].notes = "professional_monthly"
        /\ ledger[j].creditsBefore = 5
        /\ ledger[j].creditsAfter = 18
        /\ j = Len(ledger) /\ users[ledger[j].email].matchCredits = 18

\* C9 as stated: unlockRequest from an account whose balance is 0 is
\* rejected with the insufficient-credits error and changes nothing.
ZeroBalanceUnlockRejected ==
    \A e \in Emails, r \in Requests :
        users[e].matchCredits = 0
        => LET d == unlockRequest(DB, users[e], r) IN
           /\ d.res.code = 400 /\ d.res.message = "NO_CREDITS"
           /\ SameEntitlements(d)

\* C9 amended: from a balance of 0 unlockRequest changes nothing, and it
\* answers with the insufficient-credits error when the request is the
\* caller's and has a MatchReport that is not unlocked yet.
ZeroBalanceUnlockLeavesState ==
    \A e \in Emails, r \in Requests :
        users[e].matchCredits = 0
        => LET d == unlockRequest(DB, users[e], r) IN
           /\ SameEntitlements(d)
           /\ d.payments = payments
           /\ (Owner(r) = e /\ reports[r] \notin {"none", "unlocked"})
              => (d.res.code = 400 /\ ~d.res.success /\ d.res.message = "NO_CREDITS")
           /\ d.res.message = "NO_CREDITS"
              => (Owner(r) = e /\ reports[r] \notin {"none", "unlocked"})

\* an account that spent its credits down to 0 asks to unlock a report that
\* is not unlocked, and is refused
UnlockRefusedAtZero ==
    \E e \in Emails, r \in Requests :
        /\ users[e].matchCredits = 0
        /\ \E j \in 1..Len(ledger) :
               ledger[j].email = e /\ ledger[j].transactionType = "deducted"
        /\ reports[r] \in {"pending", "completed"}
        /\ unlockRequest(DB, users[e], r).res.code = 400

\* C10: in every reachable state of the interleaved handlers the balance of
\* every account is at least 0.
NonNegativeBalance == \A e \in Emails : users[e].matchCredits >= 0

\* two credit-consuming handlers raced: both deducted from the same balance
\* and the stored balance is that balance less one
RacedDeductions ==
    \E j \in 1..Len(ledger), k \in 1..Len(ledger) :
        /\ j < k
        /\ ledger[j].transactionType = "deducted" /\ ledger[k].transactionType = "deducted"
        /\ ledger[j].creditsBefore = ledger[k].creditsBefore
        /\ users[ledger[j].email].matchCredits = ledger[j].creditsBefore - 1

\* the balance change of every account in a step is the signed sum of the
\* rows the step adds for it
LedgerStepAtomic ==
    \A e \in Emails :
        users'[e].matchCredits - users[e].matchCredits
            = SignedSum(SubSeq(ledger', Len(ledger) + 1, Len(ledger')), e)

\* C11: every balance mutation and its ledger row are written as one unit;
\* when a write fails or the handler aborts between them neither is
\* persisted, so no step leaves a balance change without its row or a row
\* without its balance change.
LedgerWritesAtomic == [][LedgerStepAtomic]_vars

\* C12: a webhook request whose signature does not verify is answered 400
\* and changes no PaymentRecord, account, ledger row or report, whatever the
\* event it carries.
SignatureFailureRejected ==
    \A s \in PaidSessions, g \in GenOutcomes :
        LET d == handleWebhookRequest(DB, plans, FALSE, s, now, g) IN
        /\ d.res.code = 400
        /\ d.payments = payments
        /\ SameEntitlements(d)
        /\ d.applied = applied

\* an event that would construct a record and grant credits if its
\* signature verified, refused for its signature
ForgedEventRefused ==
    \E s \in PaidSessions :
        /\ handleWebhookRequest(DB, plans, TRUE, s, now, "ok").payments # payments
        /\ handleWebhookRequest(DB, plans, TRUE, s, now, "ok").applied[s] = 1
        /\ handleWebhookRequest(DB, plans, FALSE, s, now, "ok").res.code = 400

\* C13: when a step of a webhook sub-handler (top-up, standard purchase or
\* subscription) throws after the PaymentRecord was saved as succeeded, the
\* handler still answers 200, never 500.
PartialFailureAcknowledged ==
    \A s \in PaidSessions, k \in AbortPoints :
        (/\ WebhookProcesses(WebhookLookup(payments, SessionObject(s)))
         /\ k < WebhookWrites(DB, plans, SessionObject(s), now))
        => handleWebhookAborted(DB, plans, s, now, k).res.code = 200

\* the grant of the purchase of record i was never applied to the account
GrantMissing(i, s) ==
    /\ RecordOfSession(payments[i], s)
    /\ payments[i].status = "succeeded"
    /\ payments[i].planType = "extra_credit" \/ isSubscriptionPlan(payments[i].planType)
    /\ applied[s] = 0

\* C14: when a PaymentRecord is succeeded but the grant of its purchase was
\* not applied, a sync-all call of the owner applies the grant, once, and so
\* does a sync-one call for the request of the record.
RepairBySync ==
    \A s \in PaidSessions, i \in 1..Len(payments) :
        GrantMissing(i, s)
        => LET e == payments[i].email
               r == payments[i].requestId
           IN /\ syncUserPayments(DB, plans, e, now).applied[s] = 1
              /\ (r \in Requests /\ SyncOneLookup(payments, e, r) = i)
                 => syncPaymentStatus(DB, plans, e, r, users[e], now, "ok").applied[s] = 1

\* C17: when createCheckoutSession stored the pending PaymentRecord of a
\* paid session of a one-time or subscription plan, the webhook for that
\* session leaves the record succeeded and the report unlocked, and for a
\* subscription the account active with the new balance and expiry and one
\* added/subscription_allocation row.
StandardPurchaseViaWebhook ==
    \A s \in PaidSessions, i \in 1..Len(payments), g \in GenOutcomes :
        (/\ sessions[s].planType # "extra_credit"
         /\ payments[i].stripeSessionId = s
         /\ payments[i].status = "pending")
        => LET d == handleWebhook(DB, plans, s, now, g)
               e == payments[i].email
               pt == payments[i].planType
           IN /\ d.payments[i].status = "succeeded"
              /\ d.reports[payments[i].requestId] = "unlocked"
              /\ isSubscriptionPlan(pt)
                 => /\ d.users[e].subscriptionStatus = "active"
                    /\ d.users[e].matchCredits
                           = ExpectedRollover(plans, pt, users[e].matchCredits)
                    /\ d.users[e].subscriptionExpiresAt
                           = SubscriptionExpiry(pt, now, users[e].subscriptionExpiresAt)
                    /\ Len(NewRows(d)) = 1
                    /\ NewRows(d)[1].transactionType = "added"
                    /\ NewRows(d)[1].reason = "subscription_allocation"

\* C20: the record the webhook's lookup selects for the event of a session
\* is a record of that session's purchase, never the record of another
\* owner or of another checkout attempt for the same request.
LookupSelectsOwnRecord ==
    \A s \in PaidSessions :
        LET i == WebhookLookup(payments, SessionObject(s)) IN
        i # 0 => RecordOfSession(payments[i], s)

\* the store without PaymentRecord i
WithoutRecord(d, i) ==
    [d EXCEPT !.payments = [j \in 1..(Len(d.payments) - 1) |->
                               IF j < i THEN d.payments[j] ELSE d.payments[j + 1]]]

ReconstructsOneRecord ==
    \A s \in PaidSessions, g \in GenOutcomes :
        WebhookLookup(payments, SessionObject(s)) = 0
        => LET d == handleWebhook(DB, plans, s, now, g)
               c == sessions[s]
               n == Len(payments) + 1
           IN /\ Len(d.payments) = n
              /\ SubSeq(d.payments, 1, Len(payments)) = payments
              /\ d.payments[n].status = "succeeded"
              /\ RecordOfSession(d.payments[n], s)
              /\ d.payments[n].email = c.email
              /\ d.payments[n].planType = c.planType
              /\ d.payments[n].requestId = (IF c.requestId = General THEN NoReq ELSE c.requestId)
              /\ d.res.code = 200
              /\ c.planType # "extra_credit" => d.reports[c.requestId] = "unlocked"
              /\ isSubscriptionPlan(c.planType)
                 => /\ d.applied[s] = applied[s] + 1
                    /\ d.users[c.email].subscriptionStatus = "active"
                    /\ d.users[c.email].matchCredits
                           = ExpectedRollover(plans, c.planType, users[c.email].matchCredits)
              /\ c.planType = "extra_credit"
                 => /\ d.applied[s] = applied[s] + 1
                    /\ NewRows(d)[1].reason = "top_up"
                    /\ NewRows(d)[1].creditsUsed = c.quantity
                    /\ c.requestId = General
                       => d.users[c.email].matchCredits
                              = users[c.email].matchCredits + c.quantity
                    /\ c.requestId # General
                       => d.reports[c.requestId] \in {"unlocked", "completed"}

\* the webhook has reconstructed the record of a one-time purchase, and the
\* event of a paid top-up for a request without record or report is due
ReconstructionDue ==
    \E i \in 1..Len(payments), s \in PaidSessions :
        /\ payments[i].planType = "one-time"
        /\ payments[i].stripeSessionId = NoId
        /\ payments[i].stripePaymentIntentId \in PaidSessions
        /\ payments[i].status = "succeeded"
        /\ sessions[s].planType = "extra_credit"
        /\ WebhookLookup(payments, SessionObject(s)) = 0
        /\ Len(handleWebhook(DB, plans, s, now, "ok").payments) = Len(payments) + 1

\* the caller of getFullReport holds a token that verifies for the address
\* he gives and the request
HoldsValidToken(id, token, email, t) ==
    token # AbsentToken /\ verifyToken(token, email, id, "payment", t).valid

\* C15: getFullReport and getRequestDetails return supplier contact fields
\* only when the MatchReport is unlocked or completed and the caller holds a
\* valid, unexpired, email- and request-bound token or is the authenticated
\* owner; for a pending report, and without valid token or owner
\* authentication, no contact detail is returned.
ContactsOnlyWhenEntitled ==
    /\ \A r \in Requests, tk \in PresentedTokens, e \in TokenEmails, production \in BOOLEAN,
          age \in {0} \cup TokenAges :
           getFullReport(DB, r, tk, e, production, age).res.message = "suppliers"
           => /\ reports[r] \in {"unlocked", "completed"}
              /\ HoldsValidToken(r, tk, e, age)
    /\ \A e \in Emails, r \in Requests :
           getRequestDetails(DB, users[e], r).res.message = "suppliers"
           => /\ reports[r] \in {"unlocked", "completed"}
              /\ Owner(r) = e

\* the token as it was issued
IssuedToken == generateToken(tok.email, tok.requestId, tok.type, tok.issuedAt)

\* verification of the held token against the triple it was issued for,
\* with the expected address e
VerifiesFor(e) == verifyToken(tok.token, e, tok.requestId, tok.type, tok.clock).valid

\* C16: a generated token verifies against its own (email, requestId, type)
\* while its age is within the expiry of its type, and verification fails
\* once it is older, when the expected email is another address (compared
\* without regard to case), and when any one character of the payload part
\* has been changed.
TokenRoundTrip ==
    tok.issued
    => /\ tok.token = IssuedToken
          => (VerifiesFor(tok.email) <=> tok.clock - tok.issuedAt <= TokenExpiry(tok.type))
       /\ \A e \in TokenEmails :
              NormalizeEmail(e) # NormalizeEmail(tok.email) => ~VerifiesFor(e)
       /\ tok.token.payload # IssuedToken.payload => ~VerifiesFor(tok.email)

\* the grant of PaymentRecord p is on the account: a session of the purchase
\* was applied, the ledger has the grant row of the owner, and a
\* subscription left the account active
GrantOnAccount(p) ==
    /\ \E s \in Sessions : RecordOfSession(p, s) /\ applied[s] >= 1
    /\ \E j \in 1..Len(ledger) :
           /\ ledger[j].email = p.email
           /\ ledger[j].reason = (IF p.planType = "extra_credit" THEN "top_up"
                                  ELSE "subscription_allocation")
    /\ isSubscriptionPlan(p.planType) => users[p.email].subscriptionStatus = "active"

\* C21: between handlers, every succeeded PaymentRecord of a top-up has had
\* its credits added with a top_up row, and every succeeded PaymentRecord of
\* a subscription has been applied to the account (active, allocation row),
\* whichever of the webhook, sync-one, sync-all, the login-time sync and the
\* dashboard sync made it succeeded.
SucceededImpliesApplied ==
    \A i \in 1..Len(payments) :
        (/\ payments[i].status = "succeeded"
         /\ payments[i].planType = "extra_credit" \/ isSubscriptionPlan(payments[i].planType))
        => GrantOnAccount(payments[i])

\* a step never takes a report back: completed stays completed, unlocked
\* stays unlocked or becomes completed
ReportStepForward ==
    \A r \in Requests :
        /\ reports[r] = "completed" => reports'[r] = "completed"
        /\ reports[r] = "unlocked" => reports'[r] \in {"unlocked", "completed"}

\* C22: along every sequence of operations a completed MatchReport never
\* returns to unlocked or pending, and an unlocked MatchReport never returns
\* to pending.
ReportStatusMonotone == [][ReportStepForward]_vars

\* the request has a succeeded PaymentRecord and the provider reported a
\* checkout session of the request as paid
PaidAtProvider(r) ==
    /\ \E i \in 1..Len(payments) :
           payments[i].requestId = r /\ payments[i].status = "succeeded"
    /\ \E s \in PaidSessions : sessions[s].requestId = r

\* a credit of the owner was deducted to unlock the request
UnlockedByCredit(r) ==
    \E j \in 1..Len(ledger) :
        /\ ledger[j].requestId = r
        /\ ledger[j].transactionType = "deducted"
        /\ ledger[j].reason = "unlock_request"

\* C23: in every reachable state an unlocked MatchReport has a succeeded
\* PaymentRecord for its request that the provider reported as paid, or a
\* deducted/unlock_request ledger row for its request.
UnlockedImpliesConsumed ==
    \A r \in Requests :
        reports[r] = "unlocked" => PaidAtProvider(r) \/ UnlockedByCredit(r)

\* C24: once a MatchReport is unlocked, by payment or by unlockRequest, the
\* generate action or the matching request of the authenticated owner (the
\* AI service answering) moves it to completed without a further payment,
\* and neither moves it back to pending.
UnlockedCanComplete ==
    \A r \in Requests :
        (reports[r] = "unlocked" /\ users[Owner(r)].exists)
        => LET e == Owner(r)
               g == generateAIMatch(DB, users[e], r, "ok")
               m == processMatching(DB, e, users[e], r, now, "ok")
           IN /\ g.reports[r] = "completed" \/ m.reports[r] = "completed"
              /\ g.reports[r] # "pending"
              /\ m.reports[r] # "pending"

\* the credits deducted for request r: unlock_request and match_generation
\* rows of the request
DeductedFor(r) ==
    Cardinality({j \in 1..Len(ledger) :
                    /\ ledger[j].requestId = r
                    /\ ledger[j].transactionType = "deducted"
                    /\ ledger[j].reason \in {"unlock_request", "match_generation"}})

\* the matching request completes a report that is not completed yet
CompletesByMatching(d, r) ==
    reports[r] # "completed" /\ d.reports[r] = "completed"

\* C25: the credits deducted for a request over its whole life (unlock_request
\* plus match_generation rows) never exceed one, and processMatching never
\* completes a report without the one credit of the request having been
\* deducted.
OneCreditPerReport ==
    \A r \in Requests :
        /\ DeductedFor(r) <= 1
        /\ \A c \in Emails, g \in GenOutcomes :
               LET d == processMatching(DB, c, users[c], r, now, g) IN
               (users[c].exists /\ CompletesByMatching(d, r))
               => Cardinality({j \in 1..Len(d.ledger) :
                                  /\ d.ledger[j].requestId = r
                                  /\ d.ledger[j].transactionType = "deducted"}) = 1

\* the deducted rows of account e
Deductions(e) ==
    Cardinality({j \in 1..Len(ledger) :
                    ledger[j].email = e /\ ledger[j].transactionType = "deducted"})

\* the credits the ledger records as added to account e
RECURSIVE AddedSum(_, _)
AddedSum(L, e) ==
    IF L = <<>> THEN 0
    ELSE AddedSum(Tail(L), e)
         + (IF Head(L).email = e /\ Head(L).transactionType = "added"
            THEN Head(L).creditsUsed ELSE 0)

\* the deductions of account e are for different requests
OnePerRequest(e) ==
    \A j, k \in 1..Len(ledger) :
        (/\ j # k
         /\ ledger[j].email = e /\ ledger[k].email = e
         /\ ledger[j].transactionType = "deducted" /\ ledger[k].transactionType = "deducted")
        => ledger[j].requestId # ledger[k].requestId

\* C26: when credit-consuming requests of one account (unlockRequest,
\* processMatching, for different requests) run concurrently, the reports
\* unlocked or generated by credit never outnumber the credits the account
\* had, and the balance is what it had less the deductions the ledger records.
ConcurrentConsumptionSound ==
    \A e \in Emails :
        OnePerRequest(e)
        => /\ Deductions(e) <= opening[e] + AddedSum(ledger, e)
           /\ users[e].matchCredits = opening[e] + AddedSum(ledger, e) - Deductions(e)

\* C27: when the renewal event (invoice.payment_succeeded) of a subscription
\* is processed for an account, the new balance is the plan's creditsGranted
\* plus min(currentBalance, maxRollover) when the plan allows rollover and
\* the balance is positive, and creditsGranted otherwise, and one ledger row
\* records it.
RenewalFollowsRollover ==
    \A s \in PaidSessions, e \in Emails :
        (isSubscriptionPlan(sessions[s].planType) /\ e \in InvoiceUser(DB, s))
        => LET d == handleInvoicePaid(DB, s) IN
           /\ d.users[e].matchCredits
                  = ExpectedRollover(plans, sessions[s].planType, users[e].matchCredits)
           /\ Len(NewRows(d)) = 1
           /\ NewRows(d)[1].email = e
           /\ NewRows(d)[1].creditsBefore = users[e].matchCredits
           /\ NewRows(d)[1].creditsAfter = d.users[e].matchCredits

\* C28 as stated: the balance after a subscription allocation is never below
\* the balance before it, so the creditsUsed of an
\* added/subscription_allocation row is never negative.
ResolverOnlyAdds ==
    \A j \in 1..Len(ledger) :
        ledger[j].reason = "subscription_allocation"
        => /\ ledger[j].creditsAfter >= ledger[j].creditsBefore
           /\ ledger[j].creditsUsed >= 0

\* C28: for every plan type and every balance an account holds, the balance
\* after a subscription allocation is the balance of the rollover rule; it is at
\* least the balance before exactly when that balance is at most
\* creditsGranted + maxRollover, and above that the allocation lowers the
\* balance; the creditsUsed of every added/subscription_allocation row is
\* creditsAfter - creditsBefore, negative in that case.
AllocationSignFollowsRule ==
    /\ \A pt \in SubscriptionPlanTypes, e \in Emails :
           LET c == getCreditsForPlan(plans, pt)
               m == getMaxRolloverCredits(plans, pt)
               b == users[e].matchCredits
           IN RolloverBalance(c, m, b) >= b <=> b <= c + m
    /\ \A j \in 1..Len(ledger) :
           ledger[j].reason = "subscription_allocation"
           => /\ ledger[j].creditsUsed = ledger[j].creditsAfter - ledger[j].creditsBefore
              /\ ledger[j].creditsUsed >= 0
                 <=> ledger[j].creditsBefore
                         <= getCreditsForPlan(plans, ledger[j].notes)
                            + getMaxRolloverCredits(plans, ledger[j].notes)

\* an allocation that lowered the balance: the row of a subscription applied
\* to an account holding more than the grant, with negative creditsUsed
AllocationLowersBalance ==
    \E j \in 1..Len(ledger) :
        /\ ledger[j].reason = "subscription_allocation"
        /\ ledger[j].creditsBefore > ledger[j].creditsAfter
        /\ ledger[j].creditsUsed < 0
        /\ j = Len(ledger) /\ users[ledger[j].email].matchCredits = ledger[j].creditsAfter

\* the last row of account e among the first n rows of L, 0 if none
LastRowOf(L, e, n) == LastIndex({j \in 1..n : L[j].email = e})

\* creditsAfter = creditsBefore + creditsUsed for added, - for deducted
RowArithmetic(row) ==
    row.creditsAfter = row.creditsBefore
                       + (IF row.transactionType = "added" THEN row.creditsUsed
                          ELSE 0 - row.creditsUsed)

\* the rows a step writes: each is arithmetically sound and starts at the
\* creditsAfter of the previous row of its account, and the last row of an
\* account ends at the balance the step leaves stored
LedgerChainStep ==
    \A j \in (Len(ledger) + 1)..Len(ledger') :
        LET row == ledger'[j]
            prev == LastRowOf(ledger', row.email, j - 1)
        IN /\ RowArithmetic(row)
           /\ prev # 0 => row.creditsBefore = ledger'[prev].creditsAfter
           /\ LastRowOf(ledger', row.email, Len(ledger')) = j
              => users'[row.email].matchCredits = row.creditsAfter

\* C29: every CreditTransaction row satisfies creditsAfter = creditsBefore +
\* creditsUsed for added and creditsBefore - creditsUsed for deducted, its
\* creditsAfter is the balance persisted when it is written, and the
\* creditsBefore of each row of an account is the creditsAfter of the
\* account's previous row, under any interleaving of writers.
LedgerChained == [][LedgerChainStep]_vars

\* the expiry an allocation of plan planType at time t is to set
ExpiryFromNow(planType, t) ==
    IF planType \in {"starter_monthly", "professional_monthly"} THEN t + MonthLength
    ELSE t + YearLength

\* the handler run that produced d applied the purchase of session s and of
\* no other session
AppliedOnly(d, s) ==
    /\ d.applied[s] = applied[s] + 1
    /\ \A x \in Sessions \ {s} : d.applied[x] = applied[x]

\* how long after the clock of the state the subscription is applied: at
\* once, after more than a month, after more than a year
ApplyDelays == {0, MonthLength + 1, YearLength + 1}

\* the run that produced d applied one subscription, at time t: the expiry
\* is a period of the applied plan after t
ExpiryIsFresh(d, s, e, t) ==
    AppliedOnly(d, s)
    => /\ isSubscriptionPlan(d.users[e].subscriptionPlan)
       /\ d.users[e].subscriptionExpiresAt = ExpiryFromNow(d.users[e].subscriptionPlan, t)

\* C30: when a subscription is applied at time t, by the webhook, sync-one,
\* sync-all or the login-time sync, subscriptionExpiresAt becomes t + 1 month
\* for a monthly plan and t + 1 year for an annual plan, whatever the
\* previous subscriptionExpiresAt was (earlier, later or unset).
ExpiryDoesNotStack ==
    \A s \in PaidSessions, delay \in ApplyDelays :
        isSubscriptionPlan(sessions[s].planType)
        => LET e == sessions[s].email
               r == sessions[s].requestId
               t == now + delay
           IN /\ ExpiryIsFresh(handleWebhook(DB, plans, s, t, "ok"), s, e, t)
              /\ ExpiryIsFresh(syncPaymentStatus(DB, plans, e, r, users[e], t, "ok"), s, e, t)
              /\ ExpiryIsFresh(syncUserPayments(DB, plans, e, t), s, e, t)
              /\ ExpiryIsFresh(syncPaymentsForUser(DB, plans, e, t), s, e, t)

\* an annual subscription was applied and a monthly one after it: the expiry
\* of the account is a month after the second allocation, before the expiry
\* the annual plan had set; and a further paid subscription is about to be
\* applied over it
AnnualThenMonthly ==
    \E s1, s2 \in PaidSessions :
        /\ sessions[s1].planType \in {"starter_annual", "professional_annual"}
        /\ sessions[s2].planType \in {"starter_monthly", "professional_monthly"}
        /\ applied[s1] = 1 /\ applied[s2] = 1
        /\ users[sessions[s2].email].subscriptionPlan = sessions[s2].planType
        /\ users[sessions[s2].email].subscriptionExpiresAt <= now + MonthLength
        /\ users[sessions[s2].email].subscriptionExpiresAt < YearLength

\* the default table of the claim: credits and rollover cap by plan family
DefaultCredits(planType) ==
    IF PlanFamily(planType) = "starter" THEN 5
    ELSE IF PlanFamily(planType) = "professional" THEN 15
    ELSE 0

DefaultRolloverCap(planType) ==
    IF PlanFamily(planType) = "professional" THEN 3 ELSE 0

\* the balance the rollover rule gives from the default table
DefaultGrant(planType, before) ==
    IF DefaultRolloverCap(planType) > 0 /\ before > 0
    THEN DefaultCredits(planType) + Min(before, DefaultRolloverCap(planType))
    ELSE DefaultCredits(planType)

NoActivePlan(planType) == ActivePlan(plans, planType) = {}

\* the handler that produced store d made a PaymentRecord of account e for
\* planType succeeded: it constructed the record or found it pending
MadeSucceeded(d, e, planType) ==
    \E i \in 1..Len(d.payments) :
        /\ d.payments[i].email = e
        /\ d.payments[i].planType = planType
        /\ d.payments[i].status = "succeeded"
        /\ i > Len(payments) \/ payments[i].status = "pending"

\* what a handler that ran on the current state left in store d: every
\* allocation row for a plan without a Plan document follows the default
\* table, and an account it moved to such a plan has the record of that
\* plan succeeded
DegradedGrant(d) ==
    /\ \A j \in 1..Len(NewRows(d)) :
          LET row == NewRows(d)[j] IN
          (row.reason = "subscription_allocation" /\ NoActivePlan(row.notes))
          => /\ row.creditsAfter = DefaultGrant(row.notes, row.creditsBefore)
             /\ j = Len(NewRows(d)) => d.users[row.email].matchCredits = row.creditsAfter
    /\ \A e \in Emails :
          (/\ \E s \in DOMAIN applied : d.applied[s] > applied[s]
           /\ d.users[e] # users[e]
           /\ NoActivePlan(d.users[e].subscriptionPlan))
          => MadeSucceeded(d, e, d.users[e].subscriptionPlan)

\* C31: when no active Plan document exists for the plan family, the grant
\* of a subscription applied by the webhook, sync-one, sync-all or the login
\* sync uses the defaults (starter 5 credits and rollover cap 0,
\* professional 15 credits and rollover cap 3), a plan type of no known
\* family gets 0 credits and cap 0, and in each such case, and when the plan
\* lookup throws inside the webhook, the PaymentRecord of the purchase is
\* succeeded afterwards.
DegradedEntitlementSucceeds ==
    /\ \A pt \in PlanTypes \cup SubscriptionPlanTypes :
          NoActivePlan(pt)
          => /\ getCreditsForPlan(plans, pt) = DefaultCredits(pt)
             /\ getMaxRolloverCredits(plans, pt) = DefaultRolloverCap(pt)
    /\ \A s \in PaidSessions, g \in GenOutcomes :
          LET e == sessions[s].email
              r == sessions[s].requestId
          IN /\ DegradedGrant(handleWebhook(DB, plans, s, now, g))
             /\ DegradedGrant(syncPaymentStatus(DB, plans, e, r, users[e], now, g))
             /\ DegradedGrant(syncUserPayments(DB, plans, e, now))
             /\ DegradedGrant(syncPaymentsForUser(DB, plans, e, now))
             /\ (isSubscriptionPlan(sessions[s].planType)
                 /\ WebhookProcesses(WebhookLookup(payments, SessionObject(s)))
                 /\ reports[r] # "none")
                => LET d == WebhookPlanLookupFails(DB, plans, s, now)
                   IN /\ MadeSucceeded(d, e, sessions[s].planType)
                      /\ d.ledger = ledger

\* the professional Plan document is gone, an account with balance 5 has
\* paid for professional_monthly, and the webhook applies it as 18 with the
\* record succeeded; the webhook whose lookup throws leaves the record
\* succeeded and no row
DefaultsAppliedAfterDeletion ==
    \E s \in PaidSessions :
        /\ sessions[s].planType = "professional_monthly"
        /\ NoActivePlan("professional_monthly")
        /\ users[sessions[s].email].matchCredits = 5
        /\ LET d == handleWebhook(DB, plans, s, now, "ok")
           IN /\ Len(NewRows(d)) = 1
              /\ NewRows(d)[1].creditsAfter = 18
              /\ MadeSucceeded(d, sessions[s].email, "professional_monthly")
        /\ LET d == WebhookPlanLookupFails(DB, plans, s, now)
           IN /\ MadeSucceeded(d, sessions[s].email, "professional_monthly")
              /\ d.ledger = ledger

\* the credits a paid top-up session is worth: the quantity of its metadata,
\* or its amount divided by the configured unit price of an extra credit
PurchasedCredits(s) ==
    IF sessions[s].metadataQuantity THEN sessions[s].quantity
    ELSE SessionObject(s).amount_total \div extraCreditPrice(plans)

\* the sessions a handler that ran on the current state applied
AppliedBy(d) == {s \in Sessions : d.applied[s] > applied[s]}

RECURSIVE PurchasedSum(_)
PurchasedSum(S) ==
    IF S = {} THEN 0
    ELSE LET s == CHOOSE x \in S : TRUE IN PurchasedCredits(s) + PurchasedSum(S \ {s})

\* credits taken by the rows a handler added (the unlock after a top-up
\* bound to a request, the deduction of the generated match)
NewDeductions(d) ==
    Cardinality({j \in 1..Len(NewRows(d)) : NewRows(d)[j].transactionType = "deducted"})

\* the top-ups a handler applied added what they were bought for
TopUpAsPurchased(d, e) ==
    (AppliedBy(d) # {} /\ \A s \in AppliedBy(d) : d.applied[s] = applied[s] + 1)
    => d.users[e].matchCredits
          = users[e].matchCredits + PurchasedSum(AppliedBy(d)) - NewDeductions(d)

ManagedEvent(s) ==
    sessions[s].created /\ sessions[s].paid /\ isManagedSession(SessionObject(s))

AfterManagedEvent(s) == handleWebhookRequest(DB, plans, TRUE, s, now, "ok")

IsFeeSession(s) == sessions[s].planType = "managed_service"

EntitlementOf(u) ==
    <<u.matchCredits, u.subscriptionStatus, u.subscriptionPlan,
      u.subscriptionExpiresAt, u.stripeSubscriptionId>>

NoEntitlementEffect(d) ==
    /\ \A e \in Emails : EntitlementOf(d.users[e]) = EntitlementOf(users[e])
    /\ d.ledger = ledger
    /\ d.reports = reports
    /\ d.applied = applied

FeeMarkedPaid(d, s) ==
    LET ms == d.managed[sessions[s].requestId]
    IN IF IsFeeSession(s) THEN ms.serviceFeeStatus = "paid"
       ELSE ms.savingsFeeStatus = "paid"

\* the event is the first one processed for its fee; for the service fee the
\* workflow still waits for the payment
FirstProcessing(s) ==
    LET ms == managed[sessions[s].requestId]
    IN IF IsFeeSession(s)
       THEN ms.serviceFeeStatus # "paid" /\ ms.stage = "payment_pending"
       ELSE ms.savingsFeeStatus # "paid"

AuditRecordCreated(d, s) ==
    /\ Len(d.payments) = Len(payments) + 1
    /\ SubSeq(d.payments, 1, Len(payments)) = payments
    /\ LET x == d.payments[Len(d.payments)]
       IN /\ x.status = "succeeded"
          /\ x.planType = sessions[s].planType
          /\ x.requestId = sessions[s].requestId

StageAdvanced(d, s) ==
    LET m == sessions[s].requestId
    IN StageRank(d.managed[m].stage) > StageRank(managed[m].stage)

StageAsHandled(d, s) ==
    LET m == sessions[s].requestId
    IN IF IsFeeSession(s)
       THEN d.managed[m].stage = "review" /\ d.managed[m].status = "in_progress"
       ELSE d.managed[m].stage = managed[m].stage /\ d.managed[m].status = managed[m].status

\* C33 as stated: processing a managed-service fee or savings-fee checkout
\* event (the first one for its fee) marks the fee status paid, advances the
\* workflow stage, creates a PaymentRecord, and leaves every account's
\* balance and subscription fields, the ledger and every report unchanged.
ManagedPaymentAdvancesStage ==
    \A s \in Sessions :
        (ManagedEvent(s) /\ FirstProcessing(s)) =>
            LET d == AfterManagedEvent(s)
            IN /\ FeeMarkedPaid(d, s)
               /\ StageAdvanced(d, s)
               /\ AuditRecordCreated(d, s)
               /\ NoEntitlementEffect(d)

\* C33 amended: processing a managed-service fee or savings-fee checkout
\* event marks the fee status paid, creates a succeeded PaymentRecord and
\* leaves every account's balance and subscription fields, the ledger, the
\* applied credits and every report unchanged; the fee event puts the
\* workflow in stage review (status in_progress), the savings-fee event
\* leaves stage and status as they are.
ManagedPaymentNoEntitlement ==
    \A s \in Sessions :
        ManagedEvent(s) =>
            LET d == AfterManagedEvent(s)
            IN /\ FeeMarkedPaid(d, s)
               /\ StageAsHandled(d, s)
               /\ AuditRecordCreated(d, s)
               /\ NoEntitlementEffect(d)

\* both fees of a request were paid and processed, the savings fee while the
\* workflow was past review and the account held credits
BothFeesProcessed ==
    \E s1, s2 \in Sessions :
        /\ ManagedEvent(s1) /\ IsFeeSession(s1)
        /\ ManagedEvent(s2) /\ ~IsFeeSession(s2)
        /\ LET ms == managed[sessions[s1].requestId]
           IN /\ ms.serviceFeeStatus = "paid"
              /\ ms.savingsFeeStatus = "paid"
              /\ ms.stage = "final_report"
        /\ \E i \in 1..Len(payments) : payments[i].planType = "managed_service_savings_fee"
        /\ \E e \in Emails : users[e].matchCredits > 0

(***************************************************************************)
(* C34: one PaymentRecord per checkout attempt                             *)
(***************************************************************************)
AllPlanTypes == PlanTypes \cup {"managed_service", "managed_service_savings_fee"}

RecordsOf(ps, planType, r) ==
    {i \in 1..Len(ps) : ps[i].planType = planType /\ ps[i].requestId = r}

AttemptsOf(planType, r) ==
    {s \in Sessions : /\ sessions[s].created
                      /\ sessions[s].planType = planType
                      /\ sessions[s].requestId = r}

\* the event of session s was the one that marked its fee paid
Redelivered(s) ==
    /\ ManagedEvent(s)
    /\ LET ms == managed[sessions[s].requestId]
           so == SessionObject(s)
       IN IF IsFeeSession(s)
          THEN ms.serviceFeeStatus = "paid" /\ ms.serviceFeePaymentId = so.payment_intent
          ELSE ms.savingsFeeStatus = "paid" /\ ms.savingsFeePaymentId = so.payment_intent

RecordsWithinAttempts ==
    \A planType \in AllPlanTypes, r \in Requests \cup ManagedRequests \cup {General} :
        Cardinality(RecordsOf(payments, planType, r)) <= Cardinality(AttemptsOf(planType, r))

RedeliveryKeepsStage ==
    \A s \in Sessions :
        Redelivered(s) =>
            LET m == sessions[s].requestId
            IN StageRank(AfterManagedEvent(s).managed[m].stage) >= StageRank(managed[m].stage)

\* C34: after any sequence of checkout-session creation, webhook deliveries
\* and redeliveries and sync calls there are no more PaymentRecords of a
\* purchase than checkout sessions created for it (each session has at most
\* one record), and a redelivered managed-service event does not move the
\* ManagedService stage back.
OneRecordPerAttempt == RecordsWithinAttempts /\ RedeliveryKeepsStage

(***************************************************************************)
(* C35: a failing match generator does not fail the payment                *)
(***************************************************************************)
NewRowsOf(d) == {j \in (Len(ledger) + 1)..Len(d.ledger) : TRUE}

\* ok and thr are the outcomes of one handler call on the current store with
\* the generator succeeding and throwing; they differ exactly when the call
\* reaches the generation step.  i is the record of the purchase in thr.
GeneratorFailureContained(ok, thr, i, e, r) ==
    ok # thr =>
        /\ thr.payments[i].status = "succeeded"
        /\ thr.payments = ok.payments
        /\ \E j \in NewRowsOf(thr) :
               /\ thr.ledger[j].reason = "top_up"
               /\ thr.ledger[j].transactionType = "added"
        /\ \E j \in NewRowsOf(thr) :
               /\ thr.ledger[j].reason = "unlock_request"
               /\ thr.ledger[j].transactionType = "deducted"
        /\ \A j \in NewRowsOf(thr) : thr.ledger[j].reason # "match_generation"
        /\ ok.ledger[Len(ok.ledger)].reason = "match_generation"
        /\ thr.ledger = SubSeq(ok.ledger, 1, Len(ok.ledger) - 1)
        /\ thr.users[e].matchCredits = ok.users[e].matchCredits + 1
        /\ thr.reports[r] = "unlocked"
        /\ thr.res.success /\ thr.res.code = 200
        /\ thr.res = ok.res

TopUpSessions ==
    {s \in PaidSessions : sessions[s].planType = "extra_credit"
                          /\ sessions[s].requestId \in Requests}

WebhookGeneratorFailure(s) ==
    LET ok == handleWebhookRequest(DB, plans, TRUE, s, now, "ok")
        thr == handleWebhookRequest(DB, plans, TRUE, s, now, "throws")
    IN GeneratorFailureContained(ok, thr, Len(thr.payments), sessions[s].email,
                                 sessions[s].requestId)

SyncOneGeneratorFailure(e, r) ==
    LET ok == syncPaymentStatus(DB, plans, e, r, users[e], now, "ok")
        thr == syncPaymentStatus(DB, plans, e, r, users[e], now, "throws")
        i == SyncOneLookup(payments, e, r)
    IN ok # thr => (i \in 1..Len(payments) /\ GeneratorFailureContained(ok, thr, i, e, r))

\* C35: if the match generator throws during the automatic generation step
\* of a top-up processed by the webhook or by sync-one, the PaymentRecord is
\* succeeded, the top-up and the unlock rows are written, no
\* match_generation credit is deducted, the report is unlocked and the
\* handler answers as it does on success.
GeneratorFailureKeepsPayment ==
    /\ \A s \in TopUpSessions : WebhookGeneratorFailure(s)
    /\ \A e \in Emails, r \in Requests : users[e].exists => SyncOneGeneratorFailure(e, r)

\* a paid top-up whose webhook processing reaches the generation step
WebhookReachesGenerator ==
    \E s \in TopUpSessions :
        handleWebhookRequest(DB, plans, TRUE, s, now, "ok")
            # handleWebhookRequest(DB, plans, TRUE, s, now, "throws")

(***************************************************************************)
(* C36: the proof of purchase carried by the checkout session              *)
(***************************************************************************)
\* metadata.verificationToken of the session, generated at time t before the
\* provider session is created; the webhook passes it to the confirmation
\* mail, whose link presents it with the payer's email to getFullReport
verificationToken(s, t) ==
    generateToken(RawEmail(sessions[s].email, FALSE, FALSE), sessions[s].requestId,
                  "verification", t)

\* the email query parameter of the link
LinkEmail(s) == RawEmail(sessions[s].email, FALSE, FALSE)

\* C36: the token that createCheckoutSession embeds in the session metadata
\* and that the webhook puts in the payment confirmation link is accepted by
\* getFullReport for the same email and request while it has not expired:
\* for every paid session of a request whose report is in a status that
\* getFullReport serves, presenting the token right after it was issued
\* gets the report.
ProofOfPurchaseVerifies ==
    \A s \in PaidSessions, production \in BOOLEAN :
        LET r == sessions[s].requestId IN
        (r \in Requests /\ reports[r] \in {"unlocked", "paid", "pending"}) =>
            /\ verifyToken(verificationToken(s, now), LinkEmail(s), r, "payment", now).valid
            /\ getFullReport(DB, r, verificationToken(s, now), LinkEmail(s),
                             production, now).res.code = 200

(***************************************************************************)
(* C37, C38: binding and expiry of a token                                 *)
(***************************************************************************)
\* the token is as issued (correctly signed) and within the expiry of its type
SignedAndFresh ==
    /\ tok.issued
    /\ tok.token = IssuedToken
    /\ tok.clock - tok.issuedAt <= TokenExpiry(tok.type)

\* C37: a correctly signed, unexpired token never verifies when the expected
\* type differs from the type in its payload, whatever email and request are
\* expected, and never verifies when a request is expected that differs from
\* the one it was issued for (a token of R1 against R2).
TokenBinding ==
    SignedAndFresh =>
        \A e \in TokenEmails, r \in TokenRequests \cup {NoReq}, ty \in TokenTypes :
            /\ ty # tok.type => ~verifyToken(tok.token, e, r, ty, tok.clock).valid
            /\ (r # NoReq /\ r # tok.requestId)
                   => ~verifyToken(tok.token, e, r, ty, tok.clock).valid

\* a fresh token of R1 was presented for R2 and refused for the request
WrongRequestRefused ==
    /\ SignedAndFresh
    /\ tok.requestId = "R1"
    /\ tok.result = "Request ID mismatch"

\* C38 as stated: a correctly signed token with matching email, request and
\* type is valid exactly when now - issuedAt < expiryForType (payment 30
\* days, verification 24 hours, accountSetup 7 days, passwordReset 1 hour).
ExpiryBoundaryExclusive ==
    /\ TokenExpiry("payment") = 30 * 24 /\ TokenExpiry("verification") = 24
    /\ TokenExpiry("accountSetup") = 7 * 24 /\ TokenExpiry("passwordReset") = 1
    /\ (tok.issued /\ tok.token = IssuedToken)
           => (verifyToken(tok.token, tok.email, tok.requestId, tok.type, tok.clock).valid
                   <=> tok.clock - tok.issuedAt < TokenExpiry(tok.type))

\* C38 amended: a correctly signed token with matching email, request and
\* type is valid exactly when now - issuedAt <= expiryForType (payment 30
\* days, verification 24 hours, accountSetup 7 days, passwordReset 1 hour,
\* in hours): it is still accepted at now - issuedAt = expiryForType and is
\* rejected as expired from the next instant on.
ExpiryBoundaryInclusive ==
    /\ TokenExpiry("payment") = 30 * 24 /\ TokenExpiry("verification") = 24
    /\ TokenExpiry("accountSetup") = 7 * 24 /\ TokenExpiry("passwordReset") = 1
    /\ (tok.issued /\ tok.token = IssuedToken)
           => LET v == verifyToken(tok.token, tok.email, tok.requestId, tok.type, tok.clock)
              IN /\ v.valid <=> tok.clock - tok.issuedAt <= TokenExpiry(tok.type)
                 /\ ~v.valid => v.error = "Token expired"

\* a token verified at the very end of the life of its type, and accepted
AcceptedAtExpiry ==
    /\ tok.issued /\ tok.token = IssuedToken
    /\ tok.clock - tok.issuedAt = TokenExpiry(tok.type)
    /\ tok.result = "valid"

(***************************************************************************)
(* C39: a sync that finds nothing new                                      *)
(***************************************************************************)
\* what the provider answers for the ids the pending record p carries: its
\* payment intent has not succeeded, its session is unpaid, or (no id) no
\* listed session of its request is paid
ReportedUnpaid(p) ==
    IF p.stripePaymentIntentId # NoId
    THEN PaymentIntentStatus(p.stripePaymentIntentId) # "succeeded"
    ELSE IF p.stripeSessionId # NoId
    THEN ~sessions[p.stripeSessionId].paid
    ELSE ListedPaidSessions(p.requestId) = {}

\* the handler left every record, account, ledger row and report as stored
NothingChanged(d) ==
    /\ d.payments = payments
    /\ SameEntitlements(d)
    /\ d.suppliers = suppliers
    /\ d.applied = applied

SyncOneIdle(y, e, r, i) ==
    /\ NothingChanged(y)
    /\ y.payments[i].status = "pending"
    /\ y.res.code = 200
    /\ SyncOneData(y, e, r) = payments[i]

SyncAllIdle(y) ==
    /\ NothingChanged(y)
    /\ y.res.code = 200 /\ y.res.success
    /\ syncedCount(DB, y) = 0

PendingAll(e) == PendingOf(payments, e)

====
